---------------------------- MODULE Spec2Model ----------------------------
(***************************************************************************)
(* A model of the tracking service of touchdesigner-integrations.          *)
(*                                                                         *)
(*  - the slot allocator (app/core/objects_buffer.py, ObjectsBuffer) and   *)
(*    the emitter cycle that drives it (app/core/osc.py,                   *)
(*    OSCWorker.send_tracking_data): specification SpecEmitter;            *)
(*  - the WebSocket hub (app/api/websockets.py, WebSocketManager) with its *)
(*    dashboard publisher task: specification SpecHub;                     *)
(*  - a camera worker (app/service/manager.py, CameraWorker): the calls    *)
(*    start, stop and restart of its owner, and its processing thread      *)
(*    _run with the pipeline it drives: specifications SpecWorker and      *)
(*    SpecWorkerFair;                                                      *)
(*  - the service manager (app/service/manager.py, ServiceManager) with    *)
(*    the workers it creates, one per enabled camera: specifications       *)
(*    SpecService and SpecServiceFair, and SpecIsolation with the          *)
(*    detection cycles of the workers;                                     *)
(*  - the capture thread of a pipeline (app/core/capture.py,               *)
(*    CaptureThread): specifications SpecCapture and SpecCaptureFair;      *)
(*  - the pipeline's frame loop (app/core/pipeline.py, TrackingPipeline.   *)
(*    process_frame) on that capture thread: specification SpecPipeline.   *)
(*                                                                         *)
(* Time is counted in milliseconds: a reading of time.time() is an integer *)
(* number of ms, so (now - time) * 1000 of the code is now - time here.    *)
(* Confidences are integer levels; box coordinates are even integers, so   *)
(* that the midpoint (x1 + x2) / 2 is exact.                               *)
(***************************************************************************)
EXTENDS Integers, Sequences, FiniteSets, TLC

(***************************************************************************)
(* Bounds of the model.                                                    *)
(***************************************************************************)
MaxId == 3          \* track ids reported by the detector: 1..MaxId
MaxConf == 3        \* confidence levels: 1..MaxConf
MaxDet == 3         \* tracked detections in one cycle
DwellIds == 2       \* track ids reported in SpecDwell: 1..DwellIds
MaxTime == 4        \* the last clock reading of a run, in ms
MaxGap == 1         \* ms between the last reading of a cycle and the next cycle
MaxSkew == 1        \* ms between the reading of now and the readings in found/add
MaxWS == 2          \* WebSocket connections opened in a run
MaxInbox == 2       \* messages recorded per connection
MaxStarts == 3      \* pipelines (and processing threads) a worker creates in a run
MaxObjects == 1     \* detections counted in a processed frame: 0..MaxObjects
MaxWorkers == 4     \* CameraWorker objects the ServiceManager creates in a run
MaxCalls == 2       \* calls made on the ServiceManager in a run (is_healthy apart)
MaxHandles == 3     \* VideoCapture objects a CaptureThread creates in a run
MaxFrames == 2      \* frames a stream delivers in a run
MaxPeriod == 2      \* period_frames: 1..MaxPeriod
MaxCount == 4       \* valid reads a pipeline counts in a run

VARIABLES
    objects,        \* ObjectsBuffer.objects: slot p1..pN, in dict (insertion) order
    now,            \* the reading `now` of the last cycle
    clock,          \* the last reading of time.time()
    detections,     \* the argument of the last send_tracking_data call
    sent,           \* the send() calls of the last cycle, in order
    objectPersistance,  \* OSCWorker.objectPersistance (ms), set at construction
    active_connections, \* WebSocketManager.active_connections: channel -> list
    _connection_count,  \* WebSocketManager._connection_count
    _data_stream_tasks, \* WebSocketManager._data_stream_tasks: channel -> task, 0 for None
    task,               \* the state of each publisher task ever created
    bcast,              \* the broadcast() call each broadcaster is suspended in
    pc,                 \* where each connection's endpoint coroutine is
    endpoint,           \* the channel of each connection's endpoint
    client_state,       \* WebSocket.client_state of each connection
    peer,               \* whether the remote end of each connection is still there
    inbox,              \* the messages each connection's peer has received
    shut,               \* whether cleanup_all_connections() has returned, and the
                        \* connections it found registered
    metrics,            \* CameraWorker.metrics: status, error_message, objects_count
    thread,             \* CameraWorker.thread: the last thread created, 0 for None
    pipeline,           \* CameraWorker.pipeline: the last pipeline created, 0 for None
    stop_event,         \* CameraWorker.stop_event
    pipelines,          \* each pipeline's _running, and its capture's ready and stopped
    tpc,                \* where each processing thread is in _run
    caller,             \* the start/stop/restart call under way on the worker
    running,            \* ServiceManager.running
    camera_workers,     \* ServiceManager.camera_workers: id -> worker, in dict order
    workers,            \* the CameraWorker objects the manager has created
    enabled,            \* the `enabled` flag of each camera in the database
    source,             \* whether each camera's stream can be opened
    manager,            \* the ServiceManager call under way
    cap,                \* CaptureThread.cap: the handle it holds, 0 for None
    handles,            \* the VideoCapture objects created: opened, live, released
    openable,           \* whether the source can be opened now
    stopped,            \* CaptureThread.stopped
    ready,              \* CaptureThread.ready
    waiting,            \* CaptureThread.waiting is not 0
    ret,                \* CaptureThread.ret
    frame,              \* CaptureThread.frame: the number of the frame stored, 0 for None
    grabbed,            \* the number of the last frame the stream has delivered
    rpc,                \* where the capture thread is in run()
    ipc,                \* where the constructor's caller is in init()
    spc,                \* where the caller of stop() is
    _running,           \* TrackingPipeline._running
    _frame_count,       \* TrackingPipeline._frame_count
    _processed_count,   \* TrackingPipeline._processed_count
    period_frames,      \* TrackingPipeline.period_frames
    type,               \* CaptureThread.type: stream or video
    returned            \* what the call of the last step returned to its caller

emitterVars == <<objects, now, clock, detections, sent, objectPersistance>>

hubVars == <<active_connections, _connection_count, _data_stream_tasks, task, bcast,
             pc, endpoint, client_state, peer, inbox, shut>>

workerVars == <<metrics, thread, pipeline, stop_event, pipelines, tpc, caller>>

serviceVars == <<running, camera_workers, workers, enabled, source, manager>>

captureVars == <<cap, handles, openable, stopped, ready, waiting, ret, frame, grabbed,
                 rpc, ipc, spc>>

pipelineVars == <<_running, _frame_count, _processed_count, period_frames, type>>

restVars == <<serviceVars, captureVars, pipelineVars>>

vars == <<emitterVars, hubVars, workerVars, restVars, returned>>

\* The calls whose return value is not looked at return this.
Nothing == [op |-> "none"]

(***************************************************************************)
(* Configuration of the OSCWorker.                                         *)
(***************************************************************************)
maxSize == 2                        \* objects_max: the number of slots
confidence == 2                     \* the threshold: detections below it claim no slot
objectsFilter == <<"person">>       \* objects_filter "person", split at the commas
PersistChoices == {0, 2}            \* object_persistance values explored

Range(s) == {s[i] : i \in DOMAIN s}

(***************************************************************************)
(* ObjectsBuffer                                                           *)
(***************************************************************************)
setup ==
    [i \in 1..maxSize |->
        [track_id |-> -1, time |-> 0, free |-> TRUE, index |-> i, center |-> <<0, 0>>]]

\* free() forgetting the ids as well.
freeClearing(objs) == [i \in DOMAIN objs |-> [objs[i] EXCEPT !.free = TRUE, !.track_id = -1]]

free(objs) == [i \in DOMAIN objs |-> [objs[i] EXCEPT !.free = TRUE]]

\* The first slot, in dict order, holding track_id; 0 when there is none.
FirstWith(objs, track_id) ==
    LET hit == {i \in DOMAIN objs : objs[i].track_id = track_id}
    IN  IF hit = {} THEN 0 ELSE CHOOSE i \in hit : \A j \in hit : i <= j

\* found(): the return value, and the buffer after the call; t is the reading
\* of time.time() the call would take.
foundResult(objs, track_id) == FirstWith(objs, track_id) # 0

\* found() restarting the timer of a slot it re-claims.
foundRestart(objs, track_id, t) ==
    LET i == FirstWith(objs, track_id)
    IN  IF i = 0 THEN objs
        ELSE [objs EXCEPT ![i] = [@ EXCEPT !.free = FALSE, !.time = t]]

found(objs, track_id, t) ==
    LET i == FirstWith(objs, track_id)
    IN  IF i = 0 THEN objs
        ELSE [objs EXCEPT ![i] =
                [@ EXCEPT !.free = FALSE,
                          !.time = IF @ = 0 THEN t ELSE @]]

\* The free-slot search falling back on the first slot when none is free.
FirstFreeOrFirst(objs) ==
    LET fr == {i \in DOMAIN objs : objs[i].free}
    IN  IF fr = {} THEN 1 ELSE CHOOSE i \in fr : \A j \in fr : i <= j

FirstFree(objs) ==
    LET fr == {i \in DOMAIN objs : objs[i].free}
    IN  IF fr = {} THEN 0 ELSE CHOOSE i \in fr : \A j \in fr : i <= j

\* add() without its found() check.
addNoFound(objs, track_id, t) ==
    LET i == FirstFree(objs)
    IN  IF i = 0 THEN objs
        ELSE [objs EXCEPT ![i] =
                [@ EXCEPT !.track_id = track_id, !.free = FALSE, !.time = t]]

add(objs, track_id, t) ==
    IF foundResult(objs, track_id) THEN found(objs, track_id, t)
    ELSE LET i == FirstFree(objs)
         IN  IF i = 0 THEN objs
             ELSE [objs EXCEPT ![i] =
                     [@ EXCEPT !.track_id = track_id, !.free = FALSE, !.time = t]]

BoxKeys == {"x1", "x2", "y1", "y2"}

Midpoint(box) == <<(box.x1 + box.x2) \div 2, (box.y1 + box.y2) \div 2>>

set_center(objs, track_id, box) ==
    IF ~(BoxKeys \subseteq DOMAIN box) THEN objs
    ELSE LET i == FirstWith(objs, track_id)
         IN  IF i = 0 THEN objs ELSE [objs EXCEPT ![i].center = Midpoint(box)]

\* reset_time() leaving the timers of the free slots alone.
reset_timeKeep(objs) == objs

reset_time(objs) ==
    [i \in DOMAIN objs |-> IF objs[i].free THEN [objs[i] EXCEPT !.time = 0] ELSE objs[i]]

(***************************************************************************)
(* OSCWorker.send_tracking_data                                            *)
(***************************************************************************)
HasId(d) == "track_id" \in DOMAIN d

\* filter_classes: the non-empty items of the filter string.
filter_classes == {objectsFilter[i] : i \in {j \in DOMAIN objectsFilter : objectsFilter[j] # ""}}

Filtered(dets) ==
    IF objectsFilter # <<>> /\ filter_classes # {}
    THEN SelectSeq(dets, LAMBDA d : d.name \in filter_classes)
    ELSE dets

\* The sort key (-confidence, track_id or +inf): a before b.
KeyLess(a, b) ==
    \/ a.confidence > b.confidence
    \/ /\ a.confidence = b.confidence
       /\ HasId(a)
       /\ (~HasId(b) \/ a.track_id < b.track_id)

\* sorted() is stable: d goes after every element that is not after it.
RECURSIVE Insert(_, _)
Insert(s, d) ==
    IF s = <<>> THEN <<d>>
    ELSE IF KeyLess(d, Head(s)) THEN <<d>> \o s
         ELSE <<Head(s)>> \o Insert(Tail(s), d)

\* The list left in the order the detector gave it.
Unsorted(dets) == dets

RECURSIVE Sorted(_)
Sorted(dets) ==
    IF dets = <<>> THEN <<>>
    ELSE Insert(Sorted(SubSeq(dets, 1, Len(dets) - 1)), dets[Len(dets)])

\* The first loop skipping the detections below the threshold.
RECURSIVE FindAllGated(_, _, _)
FindAllGated(objs, dets, t) ==
    IF dets = <<>> THEN objs
    ELSE FindAllGated(IF HasId(Head(dets)) /\ Head(dets).confidence >= confidence
                      THEN found(objs, Head(dets).track_id, t) ELSE objs,
                      Tail(dets), t)

\* "First, find all prev track_ids"
RECURSIVE FindAll(_, _, _)
FindAll(objs, dets, t) ==
    IF dets = <<>> THEN objs
    ELSE FindAll(IF HasId(Head(dets)) THEN found(objs, Head(dets).track_id, t) ELSE objs,
                 Tail(dets), t)

\* The second loop without its confidence test.
AddOneUngated(objs, d, t) ==
    IF ~HasId(d) THEN objs
    ELSE set_center(add(objs, d.track_id, t), d.track_id, d.box)

\* One detection of "Second, add new track_ids".
AddOne(objs, d, t) ==
    IF d.confidence < confidence \/ ~HasId(d) THEN objs
    ELSE set_center(add(objs, d.track_id, t), d.track_id, d.box)

RECURSIVE AddAll(_, _, _)
AddAll(objs, dets, t) ==
    IF dets = <<>> THEN objs
    ELSE AddAll(AddOne(objs, Head(dets), t), Tail(dets), t)

\* The emit test with > for >=.
EmitsStrict(obj, n, persist) ==
    ~obj.free /\ obj.track_id > 0 /\ (n - obj.time) > persist

\* The emit test of "Third, send data from buffer to OSC server".
Emits(obj, n, persist) ==
    ~obj.free /\ obj.track_id > 0 /\ (n - obj.time) >= persist

Messages(obj) ==
    << [channel |-> <<"p", obj.index, "x">>, data |-> obj.center[1]],
       [channel |-> <<"p", obj.index, "y">>, data |-> obj.center[2]] >>

RECURSIVE SendAll(_, _, _, _)
SendAll(objs, i, n, persist) ==
    IF i > Len(objs) THEN <<>>
    ELSE (IF Emits(objs[i], n, persist) THEN Messages(objs[i]) ELSE <<>>)
         \o SendAll(objs, i + 1, n, persist)

\* The buffer after the allocation steps of a cycle; n is the reading `now`
\* (unused by the allocation), t the reading taken inside found()/add().
Allocate(objs, dets, t) ==
    LET ds == Sorted(Filtered(dets))
    IN  reset_time(AddAll(FindAll(free(objs), ds, t), ds, t))

(***************************************************************************)
(* WebSocketManager (app/api/websockets.py).  The code runs on one asyncio *)
(* event loop: what lies between two awaits that suspend is one step.  A   *)
(* connection is named 1..MaxWS; the publisher task created by the connect *)
(* of connection k is task k; broadcaster 0 is a broadcast_* call from     *)
(* outside (an event), broadcaster k > 0 the publisher task k.             *)
(***************************************************************************)
Channels == {"telemetry", "preview", "objects", "dashboard"}

Endpoints == {"telemetry", "dashboard"}     \* the endpoints the connections open

WS == 1..MaxWS

Broadcasters == 0..MaxWS

\* A broadcaster that is in no broadcast() call.
NoBroadcast ==
    [ch |-> "none", idx |-> 0, conn |-> 0, ok |-> FALSE, disconnected |-> <<>>,
     detached |-> FALSE, snap |-> <<>>, start |-> <<>>, sentTo |-> <<>>, tag |-> "none"]

\* The manager's fields, as one value the operations below transform.
Hub ==
    [ac |-> active_connections, cnt |-> _connection_count, reg |-> _data_stream_tasks,
     task |-> task, bc |-> bcast, box |-> inbox]

SetHub(h) ==
    /\ active_connections' = h.ac
    /\ _connection_count' = h.cnt
    /\ _data_stream_tasks' = h.reg
    /\ task' = h.task
    /\ bcast' = h.bc
    /\ inbox' = h.box

Connected(cs, ws) == cs[ws] = "CONNECTED"

\* list.remove(x): the first occurrence goes.
Remove(seq, x) ==
    LET i == CHOOSE k \in DOMAIN seq : seq[k] = x /\ \A j \in DOMAIN seq : seq[j] = x => k <= j
    IN  SubSeq(seq, 1, i - 1) \o SubSeq(seq, i + 1, Len(seq))

\* self.active_connections[channel] = <a new list>: a broadcast() that is
\* iterating the old list object goes on iterating that object.
Rebind(h, channel, newList) ==
    [h EXCEPT
        !.ac[channel] = newList,
        !.bc = [b \in DOMAIN h.bc |->
                  IF h.bc[b].ch = channel /\ ~h.bc[b].detached
                  THEN [h.bc[b] EXCEPT !.detached = TRUE, !.snap = h.ac[channel]]
                  ELSE h.bc[b]]]

_count_active_connections(h, cs, channel) ==
    Rebind(h, channel, SelectSeq(h.ac[channel], LAMBDA w : Connected(cs, w)))

_cleanup_broken_connections_for_channel(h, cs, channel) ==
    LET keep == SelectSeq(h.ac[channel], LAMBDA w : Connected(cs, w))
        removed_count == Len(h.ac[channel]) - Len(keep)
    IN  IF removed_count > 0
        THEN [Rebind(h, channel, keep) EXCEPT !.cnt = @ - removed_count]
        ELSE h

\* connections[:] = [...]: every list is filtered in place.
_cleanup_websocket_from_all_channels(h, ws) ==
    LET places == UNION {{<<c, i>> : i \in DOMAIN h.ac[c]} : c \in Channels}
        removed == Cardinality({q \in places : h.ac[q[1]][q[2]] = ws})
    IN  [h EXCEPT !.ac = [c \in Channels |-> SelectSeq(h.ac[c], LAMBDA w : w # ws)],
                  !.cnt = @ - removed]

\* A variant that does not look for a registered task.
_start_data_streamAlways(h, channel, k) ==
    IF channel = "dashboard"
    THEN [h EXCEPT !.task[k] = "pending", !.reg[channel] = k]
    ELSE h

\* k names the task that asyncio.create_task would create.
_start_data_stream(h, channel, k) ==
    IF h.reg[channel] # 0 THEN h
    ELSE IF channel = "dashboard"
         THEN [h EXCEPT !.task[k] = "pending", !.reg[channel] = k]
         ELSE h

\* task.cancel(): a task that has not finished gets CancelledError where it
\* is suspended and runs no more of its loop.
_stop_data_stream(h, channel) ==
    LET k == h.reg[channel]
    IN  IF k = 0 THEN h
        ELSE [h EXCEPT !.task[k] = IF @ \in {"pending", "sleeping", "broadcasting"}
                                   THEN "cancelled" ELSE @,
                       !.bc[k] = NoBroadcast,
                       !.reg[channel] = 0]

\* connect() after `await websocket.accept()` has returned.
connect(h, cs, ws, channel) ==
    LET h1 == _cleanup_broken_connections_for_channel(h, cs, channel)
        h2 == [h1 EXCEPT !.ac[channel] = Append(@, ws), !.cnt = @ + 1]
    IN  IF Len(h2.ac[channel]) = 1 THEN _start_data_stream(h2, channel, ws) ELSE h2

disconnect(h, ws, channel) ==
    LET h1 == IF ws \in Range(h.ac[channel])
              THEN LET h0 == [h EXCEPT !.ac[channel] = Remove(@, ws), !.cnt = @ - 1]
                   IN  IF Len(h0.ac[channel]) = 0 THEN _stop_data_stream(h0, channel) ELSE h0
              ELSE h      \* ValueError: the rest of the try block is skipped
    IN  _cleanup_websocket_from_all_channels(h1, ws)

(***************************************************************************)
(* broadcast(): `for connection in self.active_connections[channel]` walks *)
(* a list object by index; the walk suspends in each send_text.            *)
(***************************************************************************)
\* The list object broadcaster b is walking.
Walked(h, b) == IF h.bc[b].detached THEN h.bc[b].snap ELSE h.ac[h.bc[b].ch]

\* From position i on: the connections that are not CONNECTED are noted, up
\* to the first one to send to (idx), or to the end of the list (idx = 0).
RECURSIVE ScanFrom(_, _, _, _)
ScanFrom(content, cs, i, disc) ==
    IF i > Len(content) THEN [idx |-> 0, disconnected |-> disc]
    ELSE IF ~Connected(cs, content[i]) THEN ScanFrom(content, cs, i + 1, Append(disc, content[i]))
         ELSE [idx |-> i, disconnected |-> disc]

\* "Remove disconnected connections"
RECURSIVE RemoveDisconnected(_, _, _)
RemoveDisconnected(h, channel, disc) ==
    IF disc = <<>> THEN h
    ELSE RemoveDisconnected(
            IF Head(disc) \in Range(h.ac[channel])
            THEN [h EXCEPT !.ac[channel] = Remove(@, Head(disc)), !.cnt = @ - 1]
            ELSE h,
            channel, Tail(disc))

\* What broadcaster b does when its broadcast() has returned: the publisher
\* goes to sleep(2), an outside caller is done.
AfterBroadcast(h, b) ==
    IF b = 0 THEN h ELSE [h EXCEPT !.task[b] = "sleeping"]

\* A message reaches the peer of ws.  A connection carries its messages in
\* the order of the send_text calls.
Deliver(box, ws, tag) ==
    IF Len(box[ws]) < MaxInbox THEN [box EXCEPT ![ws] = Append(@, tag)] ELSE box

\* send_text(ws) called now puts its message on the connection and will
\* return; otherwise it will raise.
Sendable(ws) == peer[ws] = "up" /\ pc[ws] # "closed"

\* The walk of broadcaster b, whose record is r, from after position r.idx to
\* its next suspension (in the send_text it has called) or to the end of
\* broadcast().
Walk(h, cs, b, r) ==
    LET h1 == [h EXCEPT !.bc[b] = r]
        s == ScanFrom(Walked(h1, b), cs, r.idx + 1, r.disconnected)
        connection == Walked(h1, b)[s.idx]
    IN  IF s.idx = 0
        THEN AfterBroadcast(
                RemoveDisconnected([h1 EXCEPT !.bc[b] = NoBroadcast], r.ch, s.disconnected), b)
        ELSE [h1 EXCEPT !.bc[b] = [r EXCEPT !.idx = s.idx,
                                            !.conn = connection,
                                            !.ok = Sendable(connection),
                                            !.sentTo = IF Sendable(connection)
                                                       THEN Append(@, connection) ELSE @,
                                            !.disconnected = s.disconnected],
                        !.box = IF Sendable(connection)
                                THEN Deliver(@, connection, r.tag) ELSE @]

\* broadcast(message, channel) called by b, up to its first suspension.
broadcast(h, cs, b, channel, tag) ==
    IF h.ac[channel] = <<>> THEN AfterBroadcast(h, b)
    ELSE Walk(h, cs, b, [NoBroadcast EXCEPT !.ch = channel, !.tag = tag,
                                            !.start = h.ac[channel]])

(***************************************************************************)
(* Inputs: the detection lists of a cycle.  A detection is a record with a *)
(* name, a confidence, a box and, when the tracker gave it one, a          *)
(* track_id; a malformed box lacks a key.                                  *)
(***************************************************************************)
BoxA == [x1 |-> 0, x2 |-> 2, y1 |-> 0, y2 |-> 4]
BoxB == [x1 |-> 2, x2 |-> 4, y1 |-> 4, y2 |-> 8]
BadBox == [x1 |-> 0, x2 |-> 2, y1 |-> 0]

Tracked(id, boxes) ==
    { [name |-> "person", confidence |-> c, track_id |-> id, box |-> b] :
        c \in 1..MaxConf, b \in boxes }

\* Lists of detections of the ids first..last, each id reported at most once,
\* in ascending order of id, at most k of them.
RECURSIVE TrackedLists(_, _, _, _)
TrackedLists(first, last, k, boxes) ==
    IF first > last \/ k = 0 THEN {<<>>}
    ELSE TrackedLists(first + 1, last, k, boxes)
         \cup { <<d>> \o rest : d \in Tracked(first, boxes),
                                rest \in TrackedLists(first + 1, last, k - 1, boxes) }

\* Detections the allocation treats specially: of a class outside the filter,
\* with a malformed box, or without a track_id.
OddDetections ==
    { [name |-> "car", confidence |-> MaxConf, track_id |-> id, box |-> BoxA] :
        id \in 1..MaxId }
    \cup { [name |-> "person", confidence |-> MaxConf, track_id |-> id, box |-> BadBox] :
        id \in 1..MaxId }
    \cup { [name |-> "person", confidence |-> MaxConf, box |-> BoxA] }

\* SpecEmitter: up to MaxDet tracked persons, or one odd detection (whose id
\* may repeat one of the list) before up to MaxDet - 1 of them.
Inputs ==
    TrackedLists(1, MaxId, MaxDet, {BoxA})
    \cup { <<o>> \o l : o \in OddDetections, l \in TrackedLists(1, MaxId, MaxDet - 1, {BoxA}) }

\* SpecDwell: fewer ids, boxes that move.
DwellInputs == TrackedLists(1, DwellIds, DwellIds, {BoxA, BoxB})

(***************************************************************************)
(* The emitter's state machine: one action, a whole send_tracking_data     *)
(* call.  n is the reading `now` of line 61, t the reading found() and     *)
(* add() take later in the same call.                                      *)
(***************************************************************************)
InitOSCWorker(persists) ==
    /\ objects = setup
    /\ now = 0
    /\ clock = 1
    /\ detections = <<>>
    /\ sent = <<>>
    /\ objectPersistance \in persists

\* WebSocketManager.__init__, and no connection opened yet.
InitManager ==
    /\ active_connections = [c \in Channels |-> <<>>]
    /\ _connection_count = 0
    /\ _data_stream_tasks = [c \in Channels |-> 0]
    /\ task = [k \in WS |-> "none"]
    /\ bcast = [b \in Broadcasters |-> NoBroadcast]
    /\ pc = [ws \in WS |-> "new"]
    /\ endpoint = [ws \in WS |-> "none"]
    /\ client_state = [ws \in WS |-> "CONNECTING"]
    /\ peer = [ws \in WS |-> "up"]
    /\ inbox = [ws \in WS |-> <<>>]
    /\ shut = [returned |-> FALSE, cleared |-> {}]
    /\ returned = Nothing

\* A pipeline that has not been constructed.
NoPipeline == [running |-> FALSE, ready |-> FALSE, stopped |-> FALSE]

\* CameraWorker.__init__
InitCameraWorker ==
    /\ metrics = [status |-> "stopped", error_message |-> "none", objects_count |-> 0]
    /\ thread = 0
    /\ pipeline = 0
    /\ stop_event = FALSE
    /\ pipelines = [i \in 1..MaxStarts |-> NoPipeline]
    /\ tpc = [i \in 1..MaxStarts |-> "none"]
    /\ caller = [call |-> "none", at |-> "none", found |-> "none"]

\* The ids of the cameras in the database, in the order of get_cameras().
Cameras == <<"cam1", "cam2">>

CameraIds == {Cameras[i] : i \in 1..Len(Cameras)}

\* No ServiceManager call is under way.
NoCall == [op |-> "none", id |-> "none", action |-> "none", todo |-> <<>>, called |-> <<>>,
           was_running |-> FALSE, found |-> <<>>, created |-> 0, n |-> 0]

\* ServiceManager.__init__, with every camera of the database enabled and
\* reachable.
InitServiceManager ==
    /\ running = FALSE
    /\ camera_workers = <<>>
    /\ workers = <<>>
    /\ enabled = [id \in CameraIds |-> TRUE]
    /\ source = [id \in CameraIds |-> "up"]
    /\ manager = NoCall

\* A VideoCapture object that has not been created.
NoHandle == [made |-> FALSE, opened |-> FALSE, live |-> FALSE, released |-> FALSE]

\* CaptureThread.__init__ up to self.init(): the thread is started and has
\* run nothing yet.
InitCaptureThread ==
    /\ cap = 0
    /\ handles = [h \in 1..MaxHandles |-> NoHandle]
    /\ openable = TRUE
    /\ stopped = FALSE
    /\ ready = FALSE
    /\ waiting = FALSE
    /\ ret = FALSE
    /\ frame = 0
    /\ grabbed = 0
    /\ rpc = "top"
    /\ ipc = "init"
    /\ spc = "none"

\* TrackingPipeline.__init__, with the period and the kind of source given
InitTrackingPipeline(periods, types) ==
    /\ _running = FALSE
    /\ _frame_count = 0
    /\ _processed_count = 0
    /\ period_frames \in periods
    /\ type \in types

InitRest == InitServiceManager /\ InitCaptureThread /\ InitTrackingPipeline({1}, {"stream"})

InitEmitter == InitOSCWorker({0}) /\ InitManager /\ InitCameraWorker /\ InitRest

InitDwell == InitOSCWorker(PersistChoices) /\ InitManager /\ InitCameraWorker /\ InitRest

send_tracking_data(dets, n, t) ==
    /\ now' = n
    /\ clock' = t
    /\ detections' = dets
    /\ objects' = Allocate(objects, dets, t)
    /\ sent' = SendAll(objects', 1, n, objectPersistance)
    /\ UNCHANGED objectPersistance
    /\ UNCHANGED hubVars
    /\ UNCHANGED workerVars
    /\ UNCHANGED restVars
    /\ UNCHANGED returned

Cycle(inputs, gaps, skews) ==
    \E dets \in inputs :
      \E n \in {clock + g : g \in gaps} :
        \E t \in {n + k : k \in skews} :
            /\ t <= MaxTime
            /\ send_tracking_data(dets, n, t)

\* SpecEmitter: every detection list, under a clock too coarse to tell the
\* readings of a run apart.
NextEmitter == Cycle(Inputs, {0}, {0})

SpecEmitter == InitEmitter /\ [][NextEmitter]_vars

\* SpecDwell: the clock advances between and within the cycles.
NextDwell == Cycle(DwellInputs, 0..MaxGap, 0..MaxSkew)

SpecDwell == InitDwell /\ [][NextDwell]_vars

\* A variant that sends nothing.
send_dashboard_initial_stateSkipped(h, cs, ws) == h

\* send_dashboard_initial_state(websocket) up to its suspension in send_text.
send_dashboard_initial_state(h, cs, ws) ==
    IF ~Connected(cs, ws) THEN h
    ELSE [h EXCEPT !.box = IF Sendable(ws) THEN Deliver(@, ws, "initial") ELSE @]

(***************************************************************************)
(* The calls that go through every channel, in the order of the dict.      *)
(***************************************************************************)
ChannelOrder == <<"telemetry", "preview", "objects", "dashboard">>

RECURSIVE CleanupFrom(_, _, _)
CleanupFrom(h, cs, i) ==
    IF i > Len(ChannelOrder) THEN h
    ELSE CleanupFrom(_cleanup_broken_connections_for_channel(h, cs, ChannelOrder[i]), cs, i + 1)

\* The manager after get_connection_stats(), and the dict it returns.
get_connection_stats(h, cs) == CleanupFrom(h, cs, 1)

StatsOf(h) ==
    [op |-> "stats",
     total_connections |-> h.cnt,
     channels |-> [c \in Channels |-> Len(h.ac[c])]]

RECURSIVE StopFrom(_, _)
StopFrom(h, i) ==
    IF i > Len(ChannelOrder) THEN h
    ELSE StopFrom(_stop_data_stream(h, ChannelOrder[i]), i + 1)

\* A variant that leaves the counter as it is.
cleanup_all_connectionsKeepCount(h) ==
    [StopFrom(h, 1) EXCEPT !.ac = [c \in Channels |-> <<>>]]

\* list.clear() empties the list object itself: a broadcast() walking it
\* finds it empty, one walking an older object is not touched.
cleanup_all_connections(h) ==
    [StopFrom(h, 1) EXCEPT !.ac = [c \in Channels |-> <<>>], !.cnt = 0]

(***************************************************************************)
(* The hub's state machine.  The endpoint coroutine of a connection:       *)
(*   new -> accepting (suspended in accept) -> initial (dashboard only:    *)
(*   suspended in the send of the initial state) -> receiving -> closed.   *)
(* The application's shutdown (the end of its lifespan) comes after the    *)
(* server has stopped taking connections and events.                       *)
(***************************************************************************)
\* The endpoint is called and suspends in `await websocket.accept()`.
Open(ws, channel) ==
    /\ ~shut.returned
    /\ pc[ws] = "new"
    /\ \A w \in WS : w < ws => pc[w] # "new"
    /\ pc' = [pc EXCEPT ![ws] = "accepting"]
    /\ endpoint' = [endpoint EXCEPT ![ws] = channel]
    /\ returned' = Nothing
    /\ UNCHANGED <<active_connections, _connection_count, _data_stream_tasks, task, bcast,
                   client_state, peer, inbox, shut>>
    /\ UNCHANGED emitterVars
    /\ UNCHANGED workerVars
    /\ UNCHANGED restVars

\* accept() returns: the rest of connect(), and the endpoint up to its next
\* suspension; the dashboard's is in the send_text of its initial state,
\* which it calls before any other coroutine runs.
Accept(ws) ==
    /\ ~shut.returned
    /\ pc[ws] = "accepting"
    /\ peer[ws] = "up"
    /\ client_state' = [client_state EXCEPT ![ws] = "CONNECTED"]
    /\ LET h == connect(Hub, client_state', ws, endpoint[ws])
       IN  SetHub(IF endpoint[ws] = "dashboard"
                  THEN send_dashboard_initial_state(h, client_state', ws)
                  ELSE h)
    /\ pc' = [pc EXCEPT ![ws] = IF endpoint[ws] = "dashboard" THEN "initial" ELSE "receiving"]
    /\ returned' = Nothing
    /\ UNCHANGED <<endpoint, peer, shut>>
    /\ UNCHANGED emitterVars
    /\ UNCHANGED workerVars
    /\ UNCHANGED restVars

\* accept() raises: the endpoint's finally clause calls disconnect().
AcceptFails(ws) ==
    /\ pc[ws] = "accepting"
    /\ peer[ws] = "gone"
    /\ client_state' = [client_state EXCEPT ![ws] = "DISCONNECTED"]
    /\ SetHub(disconnect(Hub, ws, endpoint[ws]))
    /\ pc' = [pc EXCEPT ![ws] = "closed"]
    /\ returned' = Nothing
    /\ UNCHANGED <<endpoint, peer, shut>>
    /\ UNCHANGED emitterVars
    /\ UNCHANGED workerVars
    /\ UNCHANGED restVars

\* send_dashboard_initial_state: its send_text returns or raises (caught).
InitialSent(ws) ==
    /\ pc[ws] = "initial"
    /\ pc' = [pc EXCEPT ![ws] = "receiving"]
    /\ returned' = Nothing
    /\ UNCHANGED <<active_connections, _connection_count, _data_stream_tasks, task, bcast,
                   endpoint, client_state, peer, inbox, shut>>
    /\ UNCHANGED emitterVars
    /\ UNCHANGED workerVars
    /\ UNCHANGED restVars

\* receive_text() ends the wait: WebSocketDisconnect when the peer is gone; a
\* text from the client ends the one-shot endpoints.  The finally clause
\* calls disconnect().
EndpointExits(ws) ==
    /\ pc[ws] = "receiving"
    /\ peer[ws] = "gone" \/ endpoint[ws] # "dashboard"
    /\ client_state' = IF peer[ws] = "gone"
                       THEN [client_state EXCEPT ![ws] = "DISCONNECTED"]
                       ELSE client_state
    /\ SetHub(disconnect(Hub, ws, endpoint[ws]))
    /\ pc' = [pc EXCEPT ![ws] = "closed"]
    /\ returned' = Nothing
    /\ UNCHANGED <<endpoint, peer, shut>>
    /\ UNCHANGED emitterVars
    /\ UNCHANGED workerVars
    /\ UNCHANGED restVars

\* The environment: the remote end goes away ...
PeerGone(ws) ==
    /\ pc[ws] \in {"accepting", "initial", "receiving"}
    /\ peer[ws] = "up"
    /\ peer' = [peer EXCEPT ![ws] = "gone"]
    /\ returned' = Nothing
    /\ UNCHANGED <<active_connections, _connection_count, _data_stream_tasks, task, bcast,
                   pc, endpoint, client_state, inbox, shut>>
    /\ UNCHANGED emitterVars
    /\ UNCHANGED workerVars
    /\ UNCHANGED restVars

\* ... and the connection object shows it before the endpoint has reacted.
StateDrops(ws) ==
    /\ pc[ws] \in {"initial", "receiving"}
    /\ peer[ws] = "gone"
    /\ client_state[ws] = "CONNECTED"
    /\ client_state' = [client_state EXCEPT ![ws] = "DISCONNECTED"]
    /\ returned' = Nothing
    /\ UNCHANGED <<active_connections, _connection_count, _data_stream_tasks, task, bcast,
                   pc, endpoint, peer, inbox, shut>>
    /\ UNCHANGED emitterVars
    /\ UNCHANGED workerVars
    /\ UNCHANGED restVars

\* _dashboard_data_stream: task k is scheduled for the first time, or its
\* sleep(2) ends; the loop test, and the broadcast up to its first send.
Wake(k) ==
    /\ task[k] \in {"pending", "sleeping"}
    /\ LET h1 == _count_active_connections(Hub, client_state, "dashboard")
       IN  IF h1.ac["dashboard"] = <<>>
           THEN SetHub([h1 EXCEPT !.task[k] = "done"])
           ELSE SetHub(broadcast([h1 EXCEPT !.task[k] = "broadcasting"],
                                 client_state, k, "dashboard", "update"))
    /\ returned' = Nothing
    /\ UNCHANGED <<pc, endpoint, client_state, peer, shut>>
    /\ UNCHANGED emitterVars
    /\ UNCHANGED workerVars
    /\ UNCHANGED restVars

\* An event (broadcast_camera_status_change, broadcast_telemetry, ...) calls
\* broadcast() from outside the publisher.
Publish(channel) ==
    /\ ~shut.returned
    /\ bcast[0] = NoBroadcast
    /\ active_connections[channel] # <<>>
    /\ SetHub(broadcast(Hub, client_state, 0, channel, "event"))
    /\ returned' = Nothing
    /\ UNCHANGED <<pc, endpoint, client_state, peer, shut>>
    /\ UNCHANGED emitterVars
    /\ UNCHANGED workerVars
    /\ UNCHANGED restVars

\* The send_text a broadcast() is suspended in returns or raises, and the
\* walk goes on to its next send or to the end of broadcast().
SendDone(b) ==
    /\ bcast[b] # NoBroadcast
    /\ LET r == bcast[b]
       IN  SetHub(Walk(Hub, client_state, b,
                       IF r.ok THEN r ELSE [r EXCEPT !.disconnected = Append(@, r.conn)]))
    /\ returned' = Nothing
    /\ UNCHANGED <<pc, endpoint, client_state, peer, shut>>
    /\ UNCHANGED emitterVars
    /\ UNCHANGED workerVars
    /\ UNCHANGED restVars

\* GET /ws/stats and the console's status display call get_connection_stats().
Stats ==
    /\ LET h == get_connection_stats(Hub, client_state)
       IN  /\ SetHub(h)
           /\ returned' = StatsOf(h)
    /\ UNCHANGED <<pc, endpoint, client_state, peer, shut>>
    /\ UNCHANGED emitterVars
    /\ UNCHANGED workerVars
    /\ UNCHANGED restVars

\* The lifespan's shutdown part awaits cleanup_all_connections().
Shutdown ==
    /\ ~shut.returned
    /\ SetHub(cleanup_all_connections(Hub))
    /\ shut' = [returned |-> TRUE,
                 cleared |-> UNION {Range(active_connections[c]) : c \in Channels}]
    /\ returned' = Nothing
    /\ UNCHANGED <<pc, endpoint, client_state, peer>>
    /\ UNCHANGED emitterVars
    /\ UNCHANGED workerVars
    /\ UNCHANGED restVars

NextHub ==
    \/ \E ws \in WS, channel \in Endpoints : Open(ws, channel)
    \/ \E ws \in WS : Accept(ws)
    \/ \E ws \in WS : AcceptFails(ws)
    \/ \E ws \in WS : InitialSent(ws)
    \/ \E ws \in WS : EndpointExits(ws)
    \/ \E ws \in WS : PeerGone(ws)
    \/ \E ws \in WS : StateDrops(ws)
    \/ \E k \in WS : Wake(k)
    \/ \E channel \in Endpoints : Publish(channel)
    \/ \E b \in Broadcasters : SendDone(b)
    \/ Stats
    \/ Shutdown

InitHub == InitOSCWorker({0}) /\ InitManager /\ InitCameraWorker /\ InitRest

SpecHub == InitHub /\ [][NextHub]_vars

(***************************************************************************)
(* CameraWorker (app/service/manager.py) and the TrackingPipeline it owns  *)
(* (app/core/pipeline.py).  start(), stop() and restart() are called one   *)
(* at a time, by `caller`; the processing thread _run runs beside them.    *)
(* A call that blocks is a step for each part between two blockings:       *)
(*   start():  constructing (in TrackingPipeline(...))                     *)
(*   stop():   stopping (the flag is set, before pipeline.stop()),         *)
(*             joining (in thread.join(timeout=5.0))                       *)
(*   restart(): the parts of stop(), sleeping (in time.sleep(1)), the      *)
(*             parts of start().                                           *)
(* A thread n is at: new (started, nothing run yet), pstart (in            *)
(* pipeline.start(), before its wait), waiting (in its wait for the        *)
(* capture, or in the warm-up), loop (at the loop test), frame (in         *)
(* process_frame, past its _running test), finally, dead.                  *)
(***************************************************************************)
Threads == 1..MaxStarts

\* thread.is_alive() answering False for a thread that runs
is_aliveNever(n) == FALSE

\* thread.is_alive()
is_alive(n) == n # 0 /\ tpc[n] \notin {"none", "dead"}

Idle == [call |-> "none", at |-> "none", found |-> "none"]

\* What a call returns: None, or the exception it raises; `proceeded` tells
\* whether it went past its first test, `found` the status it was called in.
Return(call, raised, proceeded, status) ==
    [op |-> call, raised |-> raised, proceeded |-> proceeded, found |-> status]

\* TrackingPipeline.stop() on pipeline p
pipeline_stop(pls, p) ==
    IF p = 0 THEN pls ELSE [pls EXCEPT ![p].running = FALSE, ![p].stopped = TRUE]

\* TrackingPipeline.is_running()
is_running(pls, p) == pls[p].running /\ pls[p].ready

\* start() from its entry to its first blocking, called as part of `call`.
StartEntry(call) ==
    IF is_alive(thread)
    THEN /\ caller' = Idle
         /\ returned' = Return(call, "none", FALSE, metrics.status)
         /\ UNCHANGED <<metrics, thread, pipeline, stop_event, pipelines, tpc>>
    ELSE /\ pipeline < MaxStarts
         /\ metrics' = [metrics EXCEPT !.status = "starting"]
         /\ stop_event' = FALSE
         /\ caller' = [call |-> call, at |-> "constructing",
                       found |-> IF call = "restart" THEN caller.found ELSE metrics.status]
         /\ UNCHANGED <<thread, pipeline, pipelines, tpc, returned>>

\* stop() from its entry to its first blocking, called as part of `call`.
StopEntry(call) ==
    IF ~is_alive(thread)
    THEN /\ IF call = "restart"
            THEN /\ caller' = [call |-> call, at |-> "sleeping", found |-> metrics.status]
                 /\ UNCHANGED returned
            ELSE caller' = Idle /\ returned' = Return(call, "none", FALSE, metrics.status)
         /\ UNCHANGED <<metrics, thread, pipeline, stop_event, pipelines, tpc>>
    ELSE /\ metrics' = [metrics EXCEPT !.status = "stopping"]
         /\ stop_event' = TRUE
         /\ caller' = [call |-> call, at |-> "stopping", found |-> metrics.status]
         /\ UNCHANGED <<thread, pipeline, pipelines, tpc, returned>>

\* worker.start() is called.
CallStart ==
    /\ caller = Idle
    /\ StartEntry("start")
    /\ UNCHANGED <<emitterVars, hubVars, restVars>>

\* worker.stop() is called.
CallStop ==
    /\ caller = Idle
    /\ StopEntry("stop")
    /\ UNCHANGED <<emitterVars, hubVars, restVars>>

\* worker.restart() is called: it begins with stop().
CallRestart ==
    /\ caller = Idle
    /\ StopEntry("restart")
    /\ UNCHANGED <<emitterVars, hubVars, restVars>>

\* stop(): self.pipeline.stop()
StopPipeline ==
    /\ caller.at = "stopping"
    /\ pipelines' = pipeline_stop(pipelines, pipeline)
    /\ caller' = [caller EXCEPT !.at = "joining"]
    /\ UNCHANGED <<metrics, thread, pipeline, stop_event, tpc, returned>>
    /\ UNCHANGED <<emitterVars, hubVars, restVars>>

\* stop(): join(timeout=5.0) returns, the thread having ended or not, and
\* the status is set.
Joined ==
    /\ caller.at = "joining"
    /\ metrics' = [metrics EXCEPT !.status = "stopped"]
    /\ IF caller.call = "restart"
       THEN caller' = [caller EXCEPT !.at = "sleeping"] /\ UNCHANGED returned
       ELSE caller' = Idle /\ returned' = Return("stop", "none", TRUE, caller.found)
    /\ UNCHANGED <<thread, pipeline, stop_event, pipelines, tpc>>
    /\ UNCHANGED <<emitterVars, hubVars, restVars>>

\* restart(): time.sleep(1) is over, start() is called.
Slept ==
    /\ caller.at = "sleeping"
    /\ StartEntry("restart")
    /\ UNCHANGED <<emitterVars, hubVars, restVars>>

\* start(): TrackingPipeline(...) returns, its capture ready, and the thread
\* is created and started; or it raises.
Constructed(outcome) ==
    /\ caller.at = "constructing"
    /\ IF outcome = "ok"
       THEN /\ pipeline' = pipeline + 1
            /\ pipelines' = [pipelines EXCEPT ![pipeline + 1] =
                                [running |-> FALSE, ready |-> TRUE, stopped |-> FALSE]]
            /\ thread' = pipeline + 1
            /\ tpc' = [tpc EXCEPT ![pipeline + 1] = "new"]
            /\ returned' = Return(caller.call, "none", TRUE, caller.found)
            /\ UNCHANGED metrics
       ELSE /\ metrics' = [metrics EXCEPT !.status = "error", !.error_message = "exception"]
            /\ returned' = Return(caller.call, "exception", TRUE, caller.found)
            /\ UNCHANGED <<thread, pipeline, pipelines, tpc>>
    /\ caller' = Idle
    /\ UNCHANGED stop_event
    /\ UNCHANGED <<emitterVars, hubVars, restVars>>

\* _run: self.metrics.status = "running"
Run(n) ==
    /\ tpc[n] = "new"
    /\ metrics' = [metrics EXCEPT !.status = "running"]
    /\ tpc' = [tpc EXCEPT ![n] = "pstart"]
    /\ UNCHANGED <<thread, pipeline, stop_event, pipelines, caller, returned>>
    /\ UNCHANGED <<emitterVars, hubVars, restVars>>

\* _run: self.pipeline.start(), up to its wait for the capture.
PipelineStart(n) ==
    /\ tpc[n] = "pstart"
    /\ IF pipelines[pipeline].running
       THEN tpc' = [tpc EXCEPT ![n] = "loop"] /\ UNCHANGED pipelines
       ELSE /\ pipelines' = [pipelines EXCEPT ![pipeline].running = TRUE]
            /\ tpc' = [tpc EXCEPT ![n] = "waiting"]
    /\ UNCHANGED <<metrics, thread, pipeline, stop_event, caller, returned>>
    /\ UNCHANGED <<emitterVars, hubVars, restVars>>

\* pipeline.start(): the capture is ready, and warm_up returns or raises.
WarmedUp(n, outcome) ==
    /\ tpc[n] = "waiting"
    /\ pipelines[pipeline].ready
    /\ IF outcome = "ok"
       THEN tpc' = [tpc EXCEPT ![n] = "loop"] /\ UNCHANGED metrics
       ELSE /\ metrics' = [metrics EXCEPT !.status = "error", !.error_message = "exception"]
            /\ tpc' = [tpc EXCEPT ![n] = "finally"]
    /\ UNCHANGED <<thread, pipeline, stop_event, pipelines, caller, returned>>
    /\ UNCHANGED <<emitterVars, hubVars, restVars>>

\* _run: the loop test, and process_frame up to its _running test.
LoopTest(n) ==
    /\ tpc[n] = "loop"
    /\ IF stop_event
       THEN tpc' = [tpc EXCEPT ![n] = "finally"] /\ UNCHANGED metrics
       ELSE IF ~pipelines[pipeline].running
            THEN /\ metrics' = [metrics EXCEPT
                                  !.status = "error",
                                  !.error_message = "Pipeline frame processing failed"]
                 /\ tpc' = [tpc EXCEPT ![n] = "finally"]
            ELSE tpc' = [tpc EXCEPT ![n] = "frame"] /\ UNCHANGED metrics
    /\ UNCHANGED <<thread, pipeline, stop_event, pipelines, caller, returned>>
    /\ UNCHANGED <<emitterVars, hubVars, restVars>>

\* process_frame returns, and the rest of the loop body.  outcome: "ok" (a
\* frame with k detections was processed), "noframe" (a stream had no frame),
\* "ended" (a video file is over), "raise" (the tracker or the emitter raised).
FrameDone(n, outcome, k) ==
    /\ tpc[n] = "frame"
    /\ pipelines' = IF outcome = "ended"
                    THEN [pipelines EXCEPT ![pipeline].running = FALSE]
                    ELSE pipelines
    /\ IF outcome \in {"ended", "raise"}
       THEN /\ metrics' = [metrics EXCEPT
                             !.status = "error",
                             !.error_message = "Pipeline frame processing failed"]
            /\ tpc' = [tpc EXCEPT ![n] = "finally"]
       ELSE LET updated == IF outcome = "ok"
                           THEN [metrics EXCEPT !.objects_count = k]
                           ELSE metrics
            IN  IF is_running(pipelines, pipeline)
                THEN metrics' = updated /\ tpc' = [tpc EXCEPT ![n] = "loop"]
                ELSE /\ metrics' = [updated EXCEPT
                                      !.status = "error",
                                      !.error_message = "Pipeline stopped unexpectedly"]
                     /\ tpc' = [tpc EXCEPT ![n] = "finally"]
    /\ UNCHANGED <<thread, pipeline, stop_event, caller, returned>>
    /\ UNCHANGED <<emitterVars, hubVars, restVars>>

\* _run: the finally clause, and the thread ends.
Finally(n) ==
    /\ tpc[n] = "finally"
    /\ pipelines' = pipeline_stop(pipelines, pipeline)
    /\ metrics' = [metrics EXCEPT !.status = "stopped"]
    /\ tpc' = [tpc EXCEPT ![n] = "dead"]
    /\ UNCHANGED <<thread, pipeline, stop_event, caller, returned>>
    /\ UNCHANGED <<emitterVars, hubVars, restVars>>

\* The capture thread of the current pipeline loses its source ...
SourceLost ==
    /\ pipeline # 0
    /\ pipelines[pipeline].ready
    /\ pipelines' = [pipelines EXCEPT ![pipeline].ready = FALSE]
    /\ UNCHANGED <<metrics, thread, pipeline, stop_event, tpc, caller, returned>>
    /\ UNCHANGED <<emitterVars, hubVars, restVars>>

\* ... and grabs a frame again.
SourceBack ==
    /\ pipeline # 0
    /\ ~pipelines[pipeline].ready
    /\ ~pipelines[pipeline].stopped
    /\ pipelines' = [pipelines EXCEPT ![pipeline].ready = TRUE]
    /\ UNCHANGED <<metrics, thread, pipeline, stop_event, tpc, caller, returned>>
    /\ UNCHANGED <<emitterVars, hubVars, restVars>>

NextWorker ==
    \/ CallStart
    \/ CallStop
    \/ CallRestart
    \/ StopPipeline
    \/ Joined
    \/ Slept
    \/ \E outcome \in {"ok", "raise"} : Constructed(outcome)
    \/ \E n \in Threads : Run(n)
    \/ \E n \in Threads : PipelineStart(n)
    \/ \E n \in Threads, outcome \in {"ok", "raise"} : WarmedUp(n, outcome)
    \/ \E n \in Threads : LoopTest(n)
    \/ \E n \in Threads, outcome \in {"ok", "noframe", "ended", "raise"}, k \in 0..MaxObjects :
          FrameDone(n, outcome, k)
    \/ \E n \in Threads : Finally(n)
    \/ SourceLost
    \/ SourceBack

InitWorker == InitOSCWorker({0}) /\ InitManager /\ InitCameraWorker /\ InitRest

SpecWorker == InitWorker /\ [][NextWorker]_vars

\* The steps of a processing thread that go on without an exception: the
\* thread is scheduled again and again, and the calls it makes return.
ThreadStep(n) ==
    \/ Run(n)
    \/ PipelineStart(n)
    \/ WarmedUp(n, "ok")
    \/ LoopTest(n)
    \/ \E k \in 0..MaxObjects : FrameDone(n, "ok", k)
    \/ Finally(n)

\* The steps of a stop() under way
StopStep == StopPipeline \/ Joined

SpecWorkerFair ==
    SpecWorker /\ WF_vars(\E n \in Threads : ThreadStep(n)) /\ WF_vars(StopStep)

(***************************************************************************)
(* ServiceManager (app/service/manager.py).  Its calls are made one at a   *)
(* time; is_healthy() is read at any moment.  A call is a list of parts    *)
(* still to run (`todo`), each part a step, so that the processing threads *)
(* of the workers run between them; a part that blocks (the constructor of *)
(* a pipeline waiting for its capture, a join) is a step that waits.  The  *)
(* workers are the objects 1..Len(workers); a worker is described by its   *)
(* camera, its metrics.status, the position of its last thread in _run     *)
(* (none, new, loop, finally, dead), its stop_event, the slots of the      *)
(* ObjectsBuffer of its pipeline and its metrics.objects_count.            *)
(***************************************************************************)
Op(k, id, w, swallow) == [k |-> k, id |-> id, w |-> w, swallow |-> swallow]

\* An entry of the record of what a call has done: fn was called, on worker
\* w or for camera id.
Did(fn, id, w) == [fn |-> fn, id |-> id, w |-> w]

\* The manager's fields, the rest of the call under way, the calls it has
\* made on workers, and the exception that is propagating.
Service ==
    [running |-> running, camera_workers |-> camera_workers, workers |-> workers,
     todo |-> manager.todo, called |-> manager.called, created |-> manager.created,
     raised |-> "none"]

\* The first part of the list has run, leaving m.  The call returns when
\* nothing is left to run, or raises.
SetService(cur, m) ==
    /\ running' = m.running
    /\ camera_workers' = m.camera_workers
    /\ workers' = m.workers
    /\ IF m.todo = <<>> \/ m.raised # "none"
       THEN /\ manager' = [NoCall EXCEPT !.n = cur.n]
            /\ returned' = [op |-> cur.op, id |-> cur.id, action |-> cur.action,
                            raised |-> m.raised, called |-> m.called,
                            was_running |-> cur.was_running, found |-> cur.found,
                            created |-> m.created]
       ELSE /\ manager' = [cur EXCEPT !.todo = m.todo, !.called = m.called,
                                      !.created = m.created]
            /\ returned' = Nothing

\* self.camera_workers.get(camera_id), 0 for None
WorkerOf(cw, id) ==
    LET at == {i \in 1..Len(cw) : cw[i].id = id}
    IN  IF at = {} THEN 0 ELSE cw[CHOOSE i \in at : TRUE].w

\* self.camera_workers[camera_id] = worker
SetWorker(cw, id, w) ==
    IF WorkerOf(cw, id) = 0
    THEN Append(cw, [id |-> id, w |-> w])
    ELSE [i \in 1..Len(cw) |-> IF cw[i].id = id THEN [id |-> id, w |-> w] ELSE cw[i]]

\* worker.thread and worker.thread.is_alive()
thread_is_alive(worker) == worker.thread \notin {"none", "dead"}

\* The loop of start(): a _start_camera for each enabled camera from the
\* i-th on of get_cameras().
RECURSIVE StartCameras(_, _)
StartCameras(en, i) ==
    IF i > Len(Cameras) THEN <<>>
    ELSE (IF en[Cameras[i]] THEN <<Op("_start_camera", Cameras[i], 0, FALSE)>> ELSE <<>>)
            \o StartCameras(en, i + 1)

\* ServiceManager.start() up to its loop
start(m, en) ==
    IF m.running THEN m
    ELSE [m EXCEPT !.running = TRUE, !.todo = StartCameras(en, 1) \o @]

\* ServiceManager._start_camera(camera): CameraWorker(...), worker.start()
\* and the entry in the dict; an exception goes through start(), which
\* resets `running`.  The worker of a failed start is referenced by nobody.
_start_camera(m, id, outcome) ==
    LET m1 == [m EXCEPT !.called = Append(@, Did("_start_camera", id, 0))]
        w == Len(m.workers) + 1
    IN  IF outcome = "ok"
        THEN [m1 EXCEPT !.workers = Append(@, [camera |-> id, status |-> "starting",
                                                thread |-> "new", stop_event |-> FALSE,
                                                objects |-> setup, objects_count |-> 0]),
                        !.camera_workers = SetWorker(@, id, w),
                        !.created = @ + 1]
        ELSE [m1 EXCEPT !.running = FALSE, !.raised = "exception"]

\* ServiceManager.stop() up to its loop: a worker.stop() for each item of
\* the dict, then the clear().
stop(m) ==
    IF ~m.running THEN m
    ELSE [m EXCEPT !.running = FALSE,
                   !.todo = [i \in 1..Len(m.camera_workers) |->
                                Op("worker.stop", m.camera_workers[i].id,
                                   m.camera_workers[i].w, TRUE)]
                            \o <<Op("clear", "none", 0, FALSE)>> \o @]

\* A variant whose exception is caught by nobody.
worker_stopUncaught(m, op, outcome) ==
    LET m1 == [m EXCEPT !.called = Append(@, Did("stop", op.id, op.w))]
    IN  IF ~thread_is_alive(m.workers[op.w]) THEN m1
        ELSE IF outcome = "ok"
        THEN [m1 EXCEPT !.workers[op.w].status = "stopping",
                        !.workers[op.w].stop_event = TRUE,
                        !.todo = <<Op("join", op.id, op.w, FALSE)>> \o @]
        ELSE [m1 EXCEPT !.workers[op.w].status = "error",
                        !.workers[op.w].stop_event = TRUE,
                        !.raised = "exception"]

\* CameraWorker.stop() up to its join; pipeline.stop() returns or raises.
\* The loop of ServiceManager.stop() logs the exception and goes on.
worker_stop(m, op, outcome) ==
    LET m1 == [m EXCEPT !.called = Append(@, Did("stop", op.id, op.w))]
    IN  IF ~thread_is_alive(m.workers[op.w]) THEN m1
        ELSE IF outcome = "ok"
        THEN [m1 EXCEPT !.workers[op.w].status = "stopping",
                        !.workers[op.w].stop_event = TRUE,
                        !.todo = <<Op("join", op.id, op.w, FALSE)>> \o @]
        ELSE [m1 EXCEPT !.workers[op.w].status = "error",
                        !.workers[op.w].stop_event = TRUE,
                        !.raised = IF op.swallow THEN @ ELSE "exception"]

\* CameraWorker.stop() from the return of its join
worker_join(m, op) == [m EXCEPT !.workers[op.w].status = "stopped"]

\* CameraWorker.start() up to the constructor of its pipeline
worker_start(m, op) ==
    LET m1 == [m EXCEPT !.called = Append(@, Did("start", op.id, op.w))]
    IN  IF thread_is_alive(m.workers[op.w]) THEN m1
        ELSE [m1 EXCEPT !.workers[op.w].status = "starting",
                        !.workers[op.w].stop_event = FALSE,
                        !.todo = <<Op("construct", op.id, op.w, FALSE)>> \o @]

\* CameraWorker.start() from the return of the constructor
worker_constructShared(m, op, outcome) ==
    IF outcome = "ok"
    THEN [m EXCEPT !.workers = [v \in 1..Len(@) |->
                                  [@[v] EXCEPT !.objects = setup,
                                               !.thread = IF v = op.w THEN "new" ELSE @]]]
    ELSE [m EXCEPT !.workers[op.w].status = "error", !.raised = "exception"]

worker_construct(m, op, outcome) ==
    IF outcome = "ok"
    THEN [m EXCEPT !.workers[op.w].thread = "new", !.workers[op.w].objects = setup]
    ELSE [m EXCEPT !.workers[op.w].status = "error", !.raised = "exception"]

\* A variant that takes every other action for stop.
control_cameraElseStop(m, id, action) ==
    LET w == WorkerOf(m.camera_workers, id)
    IN  IF w = 0 THEN [m EXCEPT !.raised = "not found"]
        ELSE IF action = "start"
        THEN [m EXCEPT !.todo = <<Op("worker.start", id, w, FALSE)>>]
        ELSE IF action = "restart"
        THEN [m EXCEPT !.todo = <<Op("worker.stop", id, w, FALSE),
                                  Op("worker.start", id, w, FALSE)>>]
        ELSE [m EXCEPT !.todo = <<Op("worker.stop", id, w, FALSE)>>]

\* ServiceManager.control_camera(camera_id, action) up to the worker's call
control_camera(m, id, action) ==
    LET w == WorkerOf(m.camera_workers, id)
    IN  IF w = 0 THEN [m EXCEPT !.raised = "not found"]
        ELSE IF action = "start"
        THEN [m EXCEPT !.todo = <<Op("worker.start", id, w, FALSE)>>]
        ELSE IF action = "stop"
        THEN [m EXCEPT !.todo = <<Op("worker.stop", id, w, FALSE)>>]
        ELSE IF action = "restart"
        THEN [m EXCEPT !.todo = <<Op("worker.stop", id, w, FALSE),
                                  Op("worker.start", id, w, FALSE)>>]
        ELSE [m EXCEPT !.raised = "Invalid action"]

\* A variant that does not stop the service before it loads.
reload_configNoStop(m) ==
    [m EXCEPT !.todo = <<Op("_load_config", "none", 0, FALSE)>>
                       \o (IF m.running THEN <<Op("start", "none", 0, FALSE)>> ELSE <<>>)]

\* ServiceManager.reload_config() up to its first call
reload_config(m) ==
    [m EXCEPT !.todo = (IF m.running THEN <<Op("stop", "none", 0, FALSE)>> ELSE <<>>)
                       \o <<Op("_load_config", "none", 0, FALSE)>>
                       \o (IF m.running THEN <<Op("start", "none", 0, FALSE)>> ELSE <<>>)]

\* ServiceManager._load_config()
_load_config(m, outcome) ==
    LET m1 == [m EXCEPT !.called = Append(@, Did("_load_config", "none", 0))]
    IN  IF outcome = "ok" THEN m1 ELSE [m1 EXCEPT !.raised = "exception"]

\* stop(): self.camera_workers.clear()
clear(m) ==
    [m EXCEPT !.camera_workers = <<>>, !.called = Append(@, Did("clear", "none", 0))]

\* A variant that takes a stopped worker for a failed one.
RECURSIVE NoErrorFromNorStopped(_, _, _)
NoErrorFromNorStopped(cw, ws, i) ==
    IF i > Len(cw) THEN TRUE
    ELSE IF ws[cw[i].w].status \in {"error", "stopped"} THEN FALSE
    ELSE NoErrorFromNorStopped(cw, ws, i + 1)

\* ServiceManager.is_healthy(): the loop over camera_workers.values() from
\* the i-th on.
RECURSIVE NoErrorFrom(_, _, _)
NoErrorFrom(cw, ws, i) ==
    IF i > Len(cw) THEN TRUE
    ELSE IF ws[cw[i].w].status = "error" THEN FALSE
    ELSE NoErrorFrom(cw, ws, i + 1)

\* A variant that does not look at `running`.
is_healthyWorkersOnly(m) == NoErrorFrom(m.camera_workers, m.workers, 1)

is_healthy(m) ==
    IF ~m.running THEN FALSE
    ELSE NoErrorFrom(m.camera_workers, m.workers, 1)

(***************************************************************************)
(* The service's state machine.                                            *)
(***************************************************************************)
Call(op, id, action) ==
    [NoCall EXCEPT !.op = op, !.id = id, !.action = action, !.was_running = running,
                   !.found = camera_workers, !.n = manager.n + 1]

\* The part of the call under way that runs next
Part == Head(manager.todo)

\* What is left after it
Rest == [Service EXCEPT !.todo = Tail(@)]

\* No call is under way, and the run has calls left.
Free == manager.op = "none" /\ manager.n < MaxCalls

\* A call that may create workers is made while worker objects are left.
Room == Len(workers) + Cardinality({id \in CameraIds : enabled[id]}) <= MaxWorkers

\* service_manager.start() is called.
ServiceStart ==
    /\ Free
    /\ Room
    /\ SetService(Call("start", "none", "none"), start(Service, enabled))
    /\ UNCHANGED <<enabled, source>>
    /\ UNCHANGED <<emitterVars, hubVars, workerVars, captureVars, pipelineVars>>

\* service_manager.stop() is called.
ServiceStop ==
    /\ Free
    /\ SetService(Call("stop", "none", "none"), stop(Service))
    /\ UNCHANGED <<enabled, source>>
    /\ UNCHANGED <<emitterVars, hubVars, workerVars, captureVars, pipelineVars>>

\* service_manager.restart() is called: stop(), sleep(1), start().
ServiceRestart ==
    /\ Free
    /\ Room
    /\ SetService(Call("restart", "none", "none"),
                  stop([Service EXCEPT !.todo = <<Op("start", "none", 0, FALSE)>>]))
    /\ UNCHANGED <<enabled, source>>
    /\ UNCHANGED <<emitterVars, hubVars, workerVars, captureVars, pipelineVars>>

\* service_manager.reload_config() is called.
Reload ==
    /\ Free
    /\ Room
    /\ SetService(Call("reload_config", "none", "none"), reload_config(Service))
    /\ UNCHANGED <<enabled, source>>
    /\ UNCHANGED <<emitterVars, hubVars, workerVars, captureVars, pipelineVars>>

\* service_manager.control_camera(id, action) is called.
Control(id, action) ==
    /\ Free
    /\ SetService(Call("control_camera", id, action), control_camera(Service, id, action))
    /\ UNCHANGED <<enabled, source>>
    /\ UNCHANGED <<emitterVars, hubVars, workerVars, captureVars, pipelineVars>>

\* service_manager.is_healthy() is called, by the health routes or by the
\* status display.
Health ==
    /\ returned' = [op |-> "is_healthy", value |-> is_healthy(Service)]
    /\ UNCHANGED serviceVars
    /\ UNCHANGED <<emitterVars, hubVars, workerVars, captureVars, pipelineVars>>

\* stop(), reached inside restart() or reload_config()
EnterStop ==
    /\ manager.todo # <<>>
    /\ Part.k = "stop"
    /\ SetService(manager, stop(Rest))
    /\ UNCHANGED <<enabled, source>>
    /\ UNCHANGED <<emitterVars, hubVars, workerVars, captureVars, pipelineVars>>

\* start(), reached inside restart() or reload_config()
EnterStart ==
    /\ manager.todo # <<>>
    /\ Part.k = "start"
    /\ SetService(manager, start(Rest, enabled))
    /\ UNCHANGED <<enabled, source>>
    /\ UNCHANGED <<emitterVars, hubVars, workerVars, captureVars, pipelineVars>>

\* _start_camera returns, the capture of the new pipeline having become
\* ready, or raises.
StartCamera(outcome) ==
    /\ manager.todo # <<>>
    /\ Part.k = "_start_camera"
    /\ outcome = "ok" => source[Part.id] = "up"
    /\ SetService(manager, _start_camera(Rest, Part.id, outcome))
    /\ UNCHANGED <<enabled, source>>
    /\ UNCHANGED <<emitterVars, hubVars, workerVars, captureVars, pipelineVars>>

\* worker.stop() runs up to its join.
StopWorker(outcome) ==
    /\ manager.todo # <<>>
    /\ Part.k = "worker.stop"
    /\ SetService(manager, worker_stop(Rest, Part, outcome))
    /\ UNCHANGED <<enabled, source>>
    /\ UNCHANGED <<emitterVars, hubVars, workerVars, captureVars, pipelineVars>>

\* join(timeout=5.0) returns, the thread having ended or not.
JoinWorker ==
    /\ manager.todo # <<>>
    /\ Part.k = "join"
    /\ SetService(manager, worker_join(Rest, Part))
    /\ UNCHANGED <<enabled, source>>
    /\ UNCHANGED <<emitterVars, hubVars, workerVars, captureVars, pipelineVars>>

\* stop(): self.camera_workers.clear()
ClearWorkers ==
    /\ manager.todo # <<>>
    /\ Part.k = "clear"
    /\ SetService(manager, clear(Rest))
    /\ UNCHANGED <<enabled, source>>
    /\ UNCHANGED <<emitterVars, hubVars, workerVars, captureVars, pipelineVars>>

\* worker.start() runs up to the constructor of its pipeline.
StartWorker ==
    /\ manager.todo # <<>>
    /\ Part.k = "worker.start"
    /\ SetService(manager, worker_start(Rest, Part))
    /\ UNCHANGED <<enabled, source>>
    /\ UNCHANGED <<emitterVars, hubVars, workerVars, captureVars, pipelineVars>>

\* The constructor returns, its capture ready, and the thread is started;
\* or it raises.
ConstructWorker(outcome) ==
    /\ manager.todo # <<>>
    /\ Part.k = "construct"
    /\ outcome = "ok" => source[Part.id] = "up"
    /\ SetService(manager, worker_construct(Rest, Part, outcome))
    /\ UNCHANGED <<enabled, source>>
    /\ UNCHANGED <<emitterVars, hubVars, workerVars, captureVars, pipelineVars>>

\* reload_config(): _load_config() returns or raises.
LoadConfig(outcome) ==
    /\ manager.todo # <<>>
    /\ Part.k = "_load_config"
    /\ SetService(manager, _load_config(Rest, outcome))
    /\ UNCHANGED <<enabled, source>>
    /\ UNCHANGED <<emitterVars, hubVars, workerVars, captureVars, pipelineVars>>

\* The thread of worker w runs the first statement of _run.
ThreadRuns(w) ==
    /\ workers[w].thread = "new"
    /\ workers' = [workers EXCEPT ![w].status = "running", ![w].thread = "loop"]
    /\ returned' = Nothing
    /\ UNCHANGED <<running, camera_workers, enabled, source, manager>>
    /\ UNCHANGED <<emitterVars, hubVars, workerVars, captureVars, pipelineVars>>

\* It leaves the loop with an error: the warm-up raised, process_frame
\* returned False or raised, or is_running() was False.
ThreadFails(w) ==
    /\ workers[w].thread = "loop"
    /\ workers' = [workers EXCEPT ![w].status = "error", ![w].thread = "finally"]
    /\ returned' = Nothing
    /\ UNCHANGED <<running, camera_workers, enabled, source, manager>>
    /\ UNCHANGED <<emitterVars, hubVars, workerVars, captureVars, pipelineVars>>

\* It finds the stop_event set at the loop test.
ThreadSeesStop(w) ==
    /\ workers[w].thread = "loop"
    /\ workers[w].stop_event
    /\ workers' = [workers EXCEPT ![w].thread = "finally"]
    /\ returned' = Nothing
    /\ UNCHANGED <<running, camera_workers, enabled, source, manager>>
    /\ UNCHANGED <<emitterVars, hubVars, workerVars, captureVars, pipelineVars>>

\* The finally clause of _run, and the thread ends.
ThreadEnds(w) ==
    /\ workers[w].thread = "finally"
    /\ workers' = [workers EXCEPT ![w].status = "stopped", ![w].thread = "dead"]
    /\ returned' = Nothing
    /\ UNCHANGED <<running, camera_workers, enabled, source, manager>>
    /\ UNCHANGED <<emitterVars, hubVars, workerVars, captureVars, pipelineVars>>

\* It processes a frame in which the tracker reports dets: the cycle of its
\* pipeline's OSCWorker on the slots of that pipeline, and _update_metrics.
ThreadDetects(w, dets) ==
    /\ workers[w].thread = "loop"
    /\ workers' = [workers EXCEPT ![w].objects = Allocate(@, dets, clock),
                                  ![w].objects_count = Len(dets)]
    /\ returned' = Nothing
    /\ UNCHANGED <<running, camera_workers, enabled, source, manager>>
    /\ UNCHANGED <<emitterVars, hubVars, workerVars, captureVars, pipelineVars>>

\* The configuration routes save a camera with its `enabled` flag changed,
\* between two calls.
SaveCamera(id) ==
    /\ manager.op = "none"
    /\ enabled' = [enabled EXCEPT ![id] = ~@]
    /\ returned' = Nothing
    /\ UNCHANGED <<running, camera_workers, workers, source, manager>>
    /\ UNCHANGED <<emitterVars, hubVars, workerVars, captureVars, pipelineVars>>

\* The stream of a camera can no longer be opened, or can again.
SourceChanges(id) ==
    /\ source' = [source EXCEPT ![id] = IF @ = "up" THEN "down" ELSE "up"]
    /\ returned' = Nothing
    /\ UNCHANGED <<running, camera_workers, workers, enabled, manager>>
    /\ UNCHANGED <<emitterVars, hubVars, workerVars, captureVars, pipelineVars>>

Actions == {"start", "stop", "restart", "pause"}

NextService ==
    \/ ServiceStart
    \/ ServiceStop
    \/ ServiceRestart
    \/ Reload
    \/ \E id \in CameraIds \cup {"cam9"}, action \in Actions : Control(id, action)
    \/ Health
    \/ EnterStop
    \/ EnterStart
    \/ \E outcome \in {"ok", "raise"} : StartCamera(outcome)
    \/ \E outcome \in {"ok", "raise"} : StopWorker(outcome)
    \/ JoinWorker
    \/ ClearWorkers
    \/ StartWorker
    \/ \E outcome \in {"ok", "raise"} : ConstructWorker(outcome)
    \/ \E outcome \in {"ok", "raise"} : LoadConfig(outcome)
    \/ \E w \in 1..Len(workers) : ThreadRuns(w)
    \/ \E w \in 1..Len(workers) : ThreadFails(w)
    \/ \E w \in 1..Len(workers) : ThreadSeesStop(w)
    \/ \E w \in 1..Len(workers) : ThreadEnds(w)
    \/ \E id \in CameraIds : SaveCamera(id)
    \/ \E id \in CameraIds : SourceChanges(id)

InitService == InitOSCWorker({0}) /\ InitManager /\ InitCameraWorker /\ InitRest

SpecService == InitService /\ [][NextService]_vars

\* A call under way goes on whenever its next part can run without failing:
\* the thread that makes the call is scheduled again and again.  Nothing
\* makes a stream come back.
ServiceProgress ==
    \/ EnterStop
    \/ EnterStart
    \/ StartCamera("ok")
    \/ StopWorker("ok")
    \/ JoinWorker
    \/ ClearWorkers
    \/ StartWorker
    \/ ConstructWorker("ok")
    \/ LoadConfig("ok")

SpecServiceFair == SpecService /\ WF_vars(ServiceProgress)

\* What the tracker reports in a frame: nothing, or one person.
Frames == {<<>>, <<[name |-> "person", confidence |-> MaxConf, track_id |-> 1, box |-> BoxA]>>}

\* The workers under the calls that start and stop them, with the detection
\* cycles of their threads.
NextIsolation ==
    \/ ServiceStart
    \/ ServiceStop
    \/ \E id \in CameraIds, action \in {"start", "stop", "restart"} : Control(id, action)
    \/ \E outcome \in {"ok", "raise"} : StartCamera(outcome)
    \/ \E outcome \in {"ok", "raise"} : StopWorker(outcome)
    \/ JoinWorker
    \/ ClearWorkers
    \/ StartWorker
    \/ \E outcome \in {"ok", "raise"} : ConstructWorker(outcome)
    \/ \E w \in 1..Len(workers) : ThreadRuns(w)
    \/ \E w \in 1..Len(workers) : ThreadFails(w)
    \/ \E w \in 1..Len(workers) : ThreadSeesStop(w)
    \/ \E w \in 1..Len(workers) : ThreadEnds(w)
    \/ \E w \in 1..Len(workers), dets \in Frames : ThreadDetects(w, dets)

SpecIsolation == InitService /\ [][NextIsolation]_vars

(***************************************************************************)
(* CaptureThread (app/core/capture.py): the capture thread in run(), the   *)
(* constructor's caller in init(), and the calls stop() and read() made    *)
(* from other threads once the object is constructed.  The VideoCapture    *)
(* objects are the handles 1..MaxHandles: a handle is opened (isOpened())  *)
(* when its open succeeded and it has not been released, and live while    *)
(* its stream delivers frames (grab() returns True).  When the source goes *)
(* away a handle stops being live; the backend either closes it or leaves  *)
(* it opened.                                                              *)
(* The capture thread is at: top (the loop test), check (the test of the   *)
(* handle), reconnect and retry (the branch for a missing handle), grab,   *)
(* ready, retrieve, store (the lock held, self.ret written), exit.         *)
(***************************************************************************)
Handles == 1..MaxHandles

\* The next VideoCapture object, 0 when the run has none left
NextHandle ==
    IF \A h \in Handles : handles[h].made THEN 0
    ELSE CHOOSE h \in Handles : ~handles[h].made /\ \A k \in 1..(h - 1) : handles[k].made

\* cv2.VideoCapture(self.src), as object h
VideoCapture(hs, h) ==
    [hs EXCEPT ![h] = [made |-> TRUE, opened |-> openable, live |-> openable,
                       released |-> FALSE]]

\* handle.release(), None having none
release(hs, h) ==
    IF h = 0 THEN hs ELSE [hs EXCEPT ![h].opened = FALSE, ![h].released = TRUE]

\* self.cap is None or not self.cap.isOpened()
NotOpened == IF cap = 0 THEN TRUE ELSE ~handles[cap].opened

\* run(): while not self.stopped
RunTest ==
    /\ rpc = "top"
    /\ rpc' = IF stopped THEN "exit" ELSE "check"
    /\ returned' = Nothing
    /\ UNCHANGED <<cap, handles, openable, stopped, ready, waiting, ret, frame, grabbed,
                   ipc, spc>>
    /\ UNCHANGED <<emitterVars, hubVars, workerVars, serviceVars, pipelineVars>>

\* run(): if self.cap is None or not self.cap.isOpened()
RunCheck ==
    /\ rpc = "check"
    /\ rpc' = IF NotOpened THEN "reconnect" ELSE "grab"
    /\ returned' = Nothing
    /\ UNCHANGED <<cap, handles, openable, stopped, ready, waiting, ret, frame, grabbed,
                   ipc, spc>>
    /\ UNCHANGED <<emitterVars, hubVars, workerVars, serviceVars, pipelineVars>>

\* run(): if self.waiting == 0: ready, waiting, and the handle given up
RunReconnect ==
    /\ rpc = "reconnect"
    /\ IF ~waiting
       THEN /\ ready' = FALSE
            /\ waiting' = TRUE
            /\ handles' = release(handles, cap)
            /\ cap' = 0
       ELSE UNCHANGED <<ready, waiting, handles, cap>>
    /\ rpc' = "retry"
    /\ returned' = Nothing
    /\ UNCHANGED <<openable, stopped, ret, frame, grabbed, ipc, spc>>
    /\ UNCHANGED <<emitterVars, hubVars, workerVars, serviceVars, pipelineVars>>

\* run(): if waited % 3 == 0: a new VideoCapture; then `continue`.  due
\* tells whether the whole seconds waited are a multiple of 3.  An object
\* init() has put in self.cap meanwhile loses its last reference by the
\* assignment, and is closed when it is destroyed.
RunRetry(due) ==
    /\ rpc = "retry"
    /\ due => NextHandle # 0
    /\ IF due
       THEN /\ handles' = VideoCapture(release(handles, cap), NextHandle)
            /\ cap' = NextHandle
       ELSE UNCHANGED <<handles, cap>>
    /\ rpc' = "top"
    /\ returned' = Nothing
    /\ UNCHANGED <<openable, stopped, ready, waiting, ret, frame, grabbed, ipc, spc>>
    /\ UNCHANGED <<emitterVars, hubVars, workerVars, serviceVars, pipelineVars>>

\* run(): waiting reset, and self.cap.grab(); `continue` when it fails
RunGrab ==
    /\ rpc = "grab"
    /\ waiting' = FALSE
    /\ IF handles[cap].opened /\ handles[cap].live
       THEN /\ grabbed' = IF grabbed < MaxFrames THEN grabbed + 1 ELSE grabbed
            /\ rpc' = "ready"
       ELSE /\ rpc' = "top"
            /\ UNCHANGED grabbed
    /\ returned' = Nothing
    /\ UNCHANGED <<cap, handles, openable, stopped, ready, ret, frame, ipc, spc>>
    /\ UNCHANGED <<emitterVars, hubVars, workerVars, serviceVars, pipelineVars>>

\* run(): self.ready = True
RunReady ==
    /\ rpc = "ready"
    /\ ready' = TRUE
    /\ rpc' = "retrieve"
    /\ returned' = Nothing
    /\ UNCHANGED <<cap, handles, openable, stopped, waiting, ret, frame, grabbed, ipc, spc>>
    /\ UNCHANGED <<emitterVars, hubVars, workerVars, serviceVars, pipelineVars>>

\* self.cap.retrieve(): ret, the frame being the one grabbed
retrieve(h) == handles[h].opened /\ handles[h].live

StoresAlways(r) == TRUE

\* run(): if ret
Stores(r) == r

\* run(): retrieve(), and under `if ret` the lock taken and self.ret = ret
RunRetrieve ==
    /\ rpc = "retrieve"
    /\ IF Stores(retrieve(cap))
       THEN ret' = retrieve(cap) /\ rpc' = "store"
       ELSE rpc' = "top" /\ UNCHANGED ret
    /\ returned' = Nothing
    /\ UNCHANGED <<cap, handles, openable, stopped, ready, waiting, frame, grabbed, ipc, spc>>
    /\ UNCHANGED <<emitterVars, hubVars, workerVars, serviceVars, pipelineVars>>

\* run(): self.frame = frame, and the lock given back
RunStore ==
    /\ rpc = "store"
    /\ frame' = grabbed
    /\ rpc' = "top"
    /\ returned' = Nothing
    /\ UNCHANGED <<cap, handles, openable, stopped, ready, waiting, ret, grabbed, ipc, spc>>
    /\ UNCHANGED <<emitterVars, hubVars, workerVars, serviceVars, pipelineVars>>

LockedNever == FALSE

\* self.lock is held by the capture thread
Locked == rpc = "store"

\* init(): one turn of its loop: it ends when ready, opens a VideoCapture
\* in place of a missing one, and sleeps.
InitTurn ==
    /\ ipc = "init"
    /\ IF ready
       THEN ipc' = "done" /\ UNCHANGED <<handles, cap>>
       ELSE /\ NotOpened
            /\ NextHandle # 0
            /\ handles' = VideoCapture(release(handles, cap), NextHandle)
            /\ cap' = NextHandle
            /\ UNCHANGED ipc
    /\ returned' = Nothing
    /\ UNCHANGED <<openable, stopped, ready, waiting, ret, frame, grabbed, rpc, spc>>
    /\ UNCHANGED <<emitterVars, hubVars, workerVars, serviceVars, pipelineVars>>

\* stop() is called on the constructed object: self.stopped = True
StopCapture ==
    /\ ipc = "done"
    /\ spc \in {"none", "done"}
    /\ stopped' = TRUE
    /\ spc' = "release"
    /\ returned' = Nothing
    /\ UNCHANGED <<cap, handles, openable, ready, waiting, ret, frame, grabbed, rpc, ipc>>
    /\ UNCHANGED <<emitterVars, hubVars, workerVars, serviceVars, pipelineVars>>

\* stop(): if self.cap: self.cap.release()
StopRelease ==
    /\ spc = "release"
    /\ handles' = release(handles, cap)
    /\ spc' = "done"
    /\ returned' = Nothing
    /\ UNCHANGED <<cap, openable, stopped, ready, waiting, ret, frame, grabbed, rpc, ipc>>
    /\ UNCHANGED <<emitterVars, hubVars, workerVars, serviceVars, pipelineVars>>

\* read() is called on the constructed object: with self.lock, the pair
Read ==
    /\ ipc = "done"
    /\ ~Locked
    /\ returned' = [op |-> "read", ret |-> ret, frame |-> frame]
    /\ UNCHANGED captureVars
    /\ UNCHANGED <<emitterVars, hubVars, workerVars, serviceVars, pipelineVars>>

\* The source goes away: no handle delivers frames any more, and the
\* backend closes the handles (closes) or leaves them opened.
SourceDown(closes) ==
    /\ openable
    /\ openable' = FALSE
    /\ handles' = [h \in Handles |->
                     [handles[h] EXCEPT !.live = FALSE,
                                        !.opened = IF closes THEN FALSE ELSE @]]
    /\ returned' = Nothing
    /\ UNCHANGED <<cap, stopped, ready, waiting, ret, frame, grabbed, rpc, ipc, spc>>
    /\ UNCHANGED <<emitterVars, hubVars, workerVars, serviceVars, pipelineVars>>

\* The source can be opened again.
SourceUp ==
    /\ ~openable
    /\ openable' = TRUE
    /\ returned' = Nothing
    /\ UNCHANGED <<cap, handles, stopped, ready, waiting, ret, frame, grabbed, rpc, ipc, spc>>
    /\ UNCHANGED <<emitterVars, hubVars, workerVars, serviceVars, pipelineVars>>

\* The steps of the capture thread
RunThread ==
    \/ RunTest
    \/ RunCheck
    \/ RunReconnect
    \/ \E due \in BOOLEAN : RunRetry(due)
    \/ RunGrab
    \/ RunReady
    \/ RunRetrieve
    \/ RunStore

NextCapture ==
    \/ RunThread
    \/ InitTurn
    \/ StopCapture
    \/ StopRelease
    \/ Read
    \/ \E closes \in BOOLEAN : SourceDown(closes)
    \/ SourceUp

InitCapture == InitOSCWorker({0}) /\ InitManager /\ InitCameraWorker /\ InitRest

SpecCapture == InitCapture /\ [][NextCapture]_vars

\* The capture thread is scheduled again and again.
SpecCaptureFair == SpecCapture /\ WF_vars(RunThread)

(***************************************************************************)
(* TrackingPipeline (app/core/pipeline.py) on its CaptureThread: start(),  *)
(* stop() and process_frame(), called by one thread, beside the capture    *)
(* thread.  A processed frame runs the tracker, which reports a list of    *)
(* detections or raises, and then the cycle of the OSCWorker.              *)
(***************************************************************************)
\* start(): past its wait for the capture and the warm-up
TrackingStart ==
    /\ ipc = "done"
    /\ ~_running
    /\ spc = "none"
    /\ ready
    /\ _running' = TRUE
    /\ returned' = Nothing
    /\ UNCHANGED <<_frame_count, _processed_count, period_frames, type>>
    /\ UNCHANGED <<emitterVars, hubVars, workerVars, serviceVars, captureVars>>

\* stop(): _running cleared and capture.stop() up to its release
TrackingStop ==
    /\ ipc = "done"
    /\ spc = "none"
    /\ _running' = FALSE
    /\ stopped' = TRUE
    /\ spc' = "release"
    /\ returned' = Nothing
    /\ UNCHANGED <<cap, handles, openable, ready, waiting, ret, frame, grabbed, rpc, ipc>>
    /\ UNCHANGED <<_frame_count, _processed_count, period_frames, type>>
    /\ UNCHANGED <<emitterVars, hubVars, workerVars, serviceVars>>

SkipsNever(count, period) == FALSE

\* process_frame(): if self._frame_count % self.period_frames != 0
Skips(count, period) == count % period # 0

\* What a process_frame() call returns, with the pair it read and whether it
\* called the tracker and the OSCWorker.
Processed(value, detector, emitter) ==
    [op |-> "process_frame", value |-> value, ret |-> ret, frame |-> frame,
     detector |-> detector, emitter |-> emitter]

\* process_frame() is called; outcome tells whether the tracker returns
\* (reporting dets) or raises.
ProcessFrame(outcome, dets) ==
    /\ ipc = "done"
    /\ ~Locked
    /\ IF ~_running
       THEN /\ returned' = Processed(FALSE, FALSE, FALSE)
            /\ UNCHANGED <<_running, _frame_count, _processed_count>>
            /\ UNCHANGED <<objects, detections, sent>>
       ELSE IF ~ret
       THEN /\ _running' = (type = "stream")
            /\ returned' = Processed(type = "stream", FALSE, FALSE)
            /\ UNCHANGED <<_frame_count, _processed_count>>
            /\ UNCHANGED <<objects, detections, sent>>
       ELSE /\ _frame_count < MaxCount
            /\ _frame_count' = _frame_count + 1
            /\ UNCHANGED _running
            /\ IF Skips(_frame_count', period_frames)
               THEN /\ returned' = Processed(TRUE, FALSE, FALSE)
                    /\ UNCHANGED _processed_count
                    /\ UNCHANGED <<objects, detections, sent>>
               ELSE /\ _processed_count' = _processed_count + 1
                    /\ IF outcome = "ok"
                       THEN /\ detections' = dets
                            /\ objects' = Allocate(objects, dets, clock)
                            /\ sent' = SendAll(objects', 1, clock, objectPersistance)
                            /\ returned' = Processed(TRUE, TRUE, TRUE)
                       ELSE /\ returned' = Processed(FALSE, TRUE, FALSE)
                            /\ UNCHANGED <<objects, detections, sent>>
    /\ UNCHANGED <<now, clock, objectPersistance, period_frames, type>>
    /\ UNCHANGED <<hubVars, workerVars, serviceVars, captureVars>>

NextPipeline ==
    \/ RunThread
    \/ InitTurn
    \/ StopRelease
    \/ \E closes \in BOOLEAN : SourceDown(closes)
    \/ SourceUp
    \/ TrackingStart
    \/ TrackingStop
    \/ \E outcome \in {"ok", "raise"}, dets \in Frames : ProcessFrame(outcome, dets)

InitPipeline ==
    /\ InitOSCWorker({0}) /\ InitManager /\ InitCameraWorker
    /\ InitServiceManager /\ InitCaptureThread
    /\ InitTrackingPipeline(1..MaxPeriod, {"stream", "video"})

SpecPipeline == InitPipeline /\ [][NextPipeline]_vars

(***************************************************************************)
(* Vocabulary of the properties.                                           *)
(***************************************************************************)
Slots == 1..maxSize

\* The detections of a list that pass the class filter, and the ids they carry.
Passing(dets) == Range(Filtered(dets))

ReportedIds(dets) == {d.track_id : d \in {e \in Passing(dets) : HasId(e)}}

\* The highest confidence with which a list reports id t.
BestConf(dets, t) ==
    LET cs == {d.confidence : d \in {e \in Passing(dets) : HasId(e) /\ e.track_id = t}}
    IN  CHOOSE c \in cs : \A x \in cs : x <= c

\* The ids the slots hold, stale ones included, and the ids of occupied slots.
HeldIds(objs) == {objs[i].track_id : i \in DOMAIN objs}

OccupiedIds(objs) == {objs[i].track_id : i \in {j \in DOMAIN objs : ~objs[j].free}}

\* The slots whose channel a sequence of send() calls addresses.
EmittedSlots(msgs) == {msgs[k].channel[2] : k \in DOMAIN msgs}

\* The new ids of a list that come before new id t in sorted order and qualify.
NewBefore(objs, dets, t) ==
    {u \in ReportedIds(dets) \ HeldIds(objs) :
        /\ u # t
        /\ BestConf(dets, u) >= confidence
        /\ \/ BestConf(dets, u) > BestConf(dets, t)
           \/ BestConf(dets, u) = BestConf(dets, t) /\ u < t}

(***************************************************************************)
(* C1. After every cycle no two occupied slots hold the same track id.     *)
(***************************************************************************)
UniqueOccupied ==
    \A i, j \in Slots :
        (i # j /\ ~objects[i].free /\ ~objects[j].free)
            => objects[i].track_id # objects[j].track_id

\* Every slot occupied after a cycle whose list reports one id twice.
UniqueOccupiedWitness ==
    /\ \A i \in Slots : ~objects[i].free
    /\ LET ds == Filtered(detections)
       IN  \E k, l \in DOMAIN ds :
              k # l /\ HasId(ds[k]) /\ HasId(ds[l]) /\ ds[k].track_id = ds[l].track_id

(***************************************************************************)
(* C2. Slot stability: an id that holds slot i at the end of a cycle and   *)
(* is reported (passing the class filter, at any confidence) in the next   *)
(* cycle still holds slot i at the end of that cycle.                      *)
(***************************************************************************)
SlotStability ==
    [][ \A i \in Slots :
          (~objects[i].free /\ objects[i].track_id \in ReportedIds(detections'))
              => (objects'[i].track_id = objects[i].track_id /\ ~objects'[i].free) ]_vars

\* A slot kept by an id reported below the threshold while a qualifying
\* newcomer of the same cycle holds no slot.
SlotStabilityWitness ==
    /\ \E i \in Slots :
          /\ ~objects[i].free
          /\ objects[i].track_id \in ReportedIds(detections)
          /\ BestConf(detections, objects[i].track_id) < confidence
    /\ \E t \in ReportedIds(detections) :
          BestConf(detections, t) >= confidence /\ t \notin HeldIds(objects)

(***************************************************************************)
(* C3. No preemption: in a cycle that reports the ids of all slots no slot *)
(* changes its id; an id held by no slot acquires one only in a cycle in   *)
(* which some slot's id is not reported; at most maxSize slots emit.       *)
(***************************************************************************)
NoPreemption ==
    [][ /\ (\A i \in Slots : objects[i].track_id \in ReportedIds(detections'))
            => (\A i \in Slots : objects'[i].track_id = objects[i].track_id)
        /\ \A t \in HeldIds(objects') \ HeldIds(objects) :
              \E i \in Slots : objects[i].track_id \notin ReportedIds(detections')
        /\ Cardinality(EmittedSlots(sent')) <= maxSize
        /\ Len(sent') <= 2 * maxSize ]_vars

\* All slots occupied by reported ids, and a newcomer reported with a higher
\* confidence than each of them holds no slot.
NoPreemptionWitness ==
    /\ \A i \in Slots :
          ~objects[i].free /\ objects[i].track_id \in ReportedIds(detections)
    /\ \E t \in ReportedIds(detections) \ HeldIds(objects) :
          /\ BestConf(detections, t) >= confidence
          /\ \A i \in Slots : BestConf(detections, objects[i].track_id) < BestConf(detections, t)

(***************************************************************************)
(* C4. Confidence gate: an id held by no slot and reported only below the  *)
(* threshold is held by no slot after the cycle; reported at or above the  *)
(* threshold it is assigned a slot in that cycle when the re-claimed slots *)
(* and the new ids before it in sorted order leave one free.               *)
(***************************************************************************)
ConfidenceGate ==
    [][ \A t \in ReportedIds(detections') \ HeldIds(objects) :
          /\ BestConf(detections', t) < confidence => t \notin HeldIds(objects')
          /\ ( /\ BestConf(detections', t) >= confidence
               /\ Cardinality(HeldIds(objects) \cap ReportedIds(detections'))
                    + Cardinality(NewBefore(objects, detections', t)) < maxSize )
              => t \in OccupiedIds(objects') ]_vars

\* A cycle that left a slot free, refused an id reported below the threshold
\* and gave a slot to the ids it reported at or above it.
ConfidenceGateWitness ==
    /\ \E i \in Slots : objects[i].free
    /\ \E t \in ReportedIds(detections) :
          BestConf(detections, t) < confidence /\ t \notin HeldIds(objects)
    /\ \E t \in ReportedIds(detections) :
          BestConf(detections, t) >= confidence /\ t \in OccupiedIds(objects)

(***************************************************************************)
(* C5. A cycle emits for slot i iff, after its allocation, the slot is     *)
(* occupied, its id is > 0 and now - time >= objectPersistance; the timer  *)
(* of a slot whose id is reported again keeps running, so the slot emits   *)
(* iff the dwell since its claim has reached objectPersistance; the        *)
(* coordinates sent are the slot's center.                                 *)
(***************************************************************************)
EmitIffDwell ==
    [][ /\ \A i \in Slots :
              i \in EmittedSlots(sent')
                <=> ( /\ ~objects'[i].free
                      /\ objects'[i].track_id > 0
                      /\ now' - objects'[i].time >= objectPersistance )
        /\ \A i \in Slots :
              (~objects[i].free /\ objects[i].track_id \in ReportedIds(detections'))
                => /\ objects'[i].time = objects[i].time
                   /\ i \in EmittedSlots(sent')
                        <=> (objects[i].track_id > 0
                             /\ now' - objects[i].time >= objectPersistance)
        /\ \A k \in DOMAIN sent' :
              sent'[k].data =
                 objects'[sent'[k].channel[2]].center[IF sent'[k].channel[3] = "x" THEN 1 ELSE 2]
      ]_vars

\* A slot emitting in the cycle in which its dwell is exactly the persistence.
EmitIffDwellWitness ==
    /\ objectPersistance > 0
    /\ \E i \in Slots :
          /\ ~objects[i].free
          /\ now - objects[i].time = objectPersistance
          /\ i \in EmittedSlots(sent)

(***************************************************************************)
(* C6 as stated: the timer of a slot whose id is not reported in a cycle   *)
(* is 0 after that cycle.                                                  *)
(***************************************************************************)
TimerZeroOnAbsence ==
    [][ \A i \in Slots :
          (~objects[i].free /\ objects[i].track_id \notin ReportedIds(detections'))
              => objects'[i].time = 0 ]_vars

(***************************************************************************)
(* C6, amended.  When the id of an occupied slot is not reported in a      *)
(* cycle, the slot ends the cycle free with its timer at 0, or it was      *)
(* given to a new id in that cycle and carries that id's timer, the absent *)
(* id holding no slot any more.  An id that was not occupying a slot and   *)
(* occupies one after a cycle has a timer read in that cycle (not before   *)
(* the cycle's now): no dwell from before the gap is counted, and the slot *)
(* emits in that cycle only if objectPersistance is 0.                     *)
(***************************************************************************)
DwellRestart ==
    [][ /\ \A i \in Slots :
              (~objects[i].free /\ objects[i].track_id \notin ReportedIds(detections'))
                => \/ /\ objects'[i].free
                      /\ objects'[i].time = 0
                      /\ objects'[i].track_id = objects[i].track_id
                   \/ /\ ~objects'[i].free
                      /\ objects'[i].track_id \in ReportedIds(detections') \ HeldIds(objects)
                      /\ objects'[i].time = clock'
                      /\ objects[i].track_id \notin HeldIds(objects')
        /\ \A i \in Slots :
              (~objects'[i].free /\ objects'[i].track_id \notin OccupiedIds(objects))
                => /\ objects'[i].time = clock'
                   /\ objects'[i].time >= now'
                   /\ i \in EmittedSlots(sent') => objectPersistance = 0 ]_vars

\* After a gap: an id re-claims its stale slot, which had its timer at 0, and
\* the slot does not emit although the persistence had been reached before.
DwellRestartWitness ==
    /\ objectPersistance > 0
    /\ \E i \in Slots :
          /\ ~objects[i].free
          /\ objects[i].track_id \in ReportedIds(detections)
          /\ BestConf(detections, objects[i].track_id) < confidence
          /\ objects[i].time = clock
          /\ i \notin EmittedSlots(sent)

(***************************************************************************)
(* C7. With objectPersistance = 0 an id > 0 that is assigned a slot in a   *)
(* cycle, or re-claims it after a gap, is emitted on that slot's channel   *)
(* in the same cycle.                                                      *)
(***************************************************************************)
EmitOnAssign ==
    [][ objectPersistance = 0 =>
          \A i \in Slots :
             ( /\ ~objects'[i].free
               /\ objects'[i].track_id > 0
               /\ objects'[i].track_id \notin OccupiedIds(objects) )
                 => i \in EmittedSlots(sent') ]_vars

(***************************************************************************)
(* C8. Confidence dip: a detection below the threshold whose id holds an   *)
(* occupied slot keeps the slot occupied and its timer unchanged, and a    *)
(* slot that was emitting keeps emitting.                                  *)
(***************************************************************************)
ConfidenceDip ==
    [][ \A i \in Slots :
          ( /\ ~objects[i].free
            /\ objects[i].track_id \in ReportedIds(detections')
            /\ BestConf(detections', objects[i].track_id) < confidence )
              => /\ ~objects'[i].free
                 /\ objects'[i].track_id = objects[i].track_id
                 /\ objects'[i].time = objects[i].time
                 /\ i \in EmittedSlots(sent) => i \in EmittedSlots(sent') ]_vars

\* A slot emitting, after the persistence, for an id reported below the
\* threshold.
ConfidenceDipWitness ==
    /\ objectPersistance > 0
    /\ \E i \in Slots :
          /\ i \in EmittedSlots(sent)
          /\ objects[i].track_id \in ReportedIds(detections)
          /\ BestConf(detections, objects[i].track_id) < confidence

(***************************************************************************)
(* C9. After every cycle, a slot whose id matches a detection of the cycle *)
(* with a well-formed box has the midpoint of that box as its center,      *)
(* whatever the detection's confidence.                                    *)
(***************************************************************************)
CenterIsCurrent ==
    \A i \in Slots :
       \A d \in Passing(detections) :
          (HasId(d) /\ d.track_id = objects[i].track_id /\ BoxKeys \subseteq DOMAIN d.box)
              => objects[i].center = Midpoint(d.box)

(***************************************************************************)
(* C10. Whenever connect() makes a connection the only subscriber of the   *)
(* dashboard channel, a publisher task of that channel that has neither    *)
(* finished nor been cancelled is registered when connect() returns.       *)
(***************************************************************************)
ConnectStartsPublisher ==
    [][ \A ws \in WS :
          ( /\ pc[ws] = "accepting"
            /\ pc'[ws] = "initial"
            /\ active_connections'["dashboard"] = <<ws>> )
              => ( /\ _data_stream_tasks'["dashboard"] # 0
                   /\ task'[_data_stream_tasks'["dashboard"]]
                         \in {"pending", "sleeping", "broadcasting"} ) ]_vars

(***************************************************************************)
(* C11. At any time at most one publisher task is neither cancelled nor    *)
(* finished, and no channel other than dashboard has a task registered.    *)
(***************************************************************************)
LiveTasks == {k \in WS : task[k] \in {"pending", "sleeping", "broadcasting"}}

OnePublisher ==
    /\ Cardinality(LiveTasks) <= 1
    /\ \A c \in Channels \ {"dashboard"} : _data_stream_tasks[c] = 0

\* A second publisher task has been created after the first one ended.
OnePublisherWitness ==
    /\ \E k \in WS : task[k] \in {"cancelled", "done"}
    /\ LiveTasks # {}

(***************************************************************************)
(* C12. Whenever disconnect() returns and leaves its channel without       *)
(* subscribers, no publisher task is registered for the channel and none   *)
(* is left uncancelled.                                                    *)
(***************************************************************************)
UnsubscribeStopsPublisher ==
    [][ \A ws \in WS :
          ( /\ pc[ws] # "closed"
            /\ pc'[ws] = "closed"
            /\ active_connections'[endpoint[ws]] = <<>> )
              => ( /\ _data_stream_tasks'[endpoint[ws]] = 0
                   /\ endpoint[ws] = "dashboard" => LiveTasks' = {} ) ]_vars

(***************************************************************************)
(* C13. When a broadcast() returns, every connection that was registered   *)
(* on the channel when it was called, is still registered and is connected *)
(* has been sent the message, nobody has been sent it twice, a connection  *)
(* the call found disconnected or failed to send to is no longer           *)
(* registered on the channel, and the lists of the other channels are as   *)
(* the call's last step found them.                                        *)
(***************************************************************************)
Times(seq, x) == Cardinality({i \in DOMAIN seq : seq[i] = x})

PublishReachesAll ==
    [][ \A b \in Broadcasters :
          ( /\ bcast[b] # NoBroadcast
            /\ bcast'[b] = NoBroadcast
            /\ b = 0 \/ task'[b] = "sleeping" )
              => LET r == bcast[b]
                 IN  /\ \A ws \in Range(r.start) :
                            ( /\ ws \in Range(active_connections'[r.ch])
                              /\ Connected(client_state, ws)
                              /\ Sendable(ws) ) => Times(r.sentTo, ws) = 1
                     /\ \A ws \in WS : Times(r.sentTo, ws) <= 1
                     /\ \A ws \in Range(r.disconnected) \cup (IF r.ok THEN {} ELSE {r.conn}) :
                            ws \notin Range(active_connections'[r.ch])
                     /\ \A c \in Channels \ {r.ch} :
                            active_connections'[c] = active_connections[c] ]_vars

(***************************************************************************)
(* C14. The total get_connection_stats() returns is the sum of the         *)
(* per-channel counts it returns, and is not negative.                     *)
(***************************************************************************)
ChannelSum(counts) ==
    counts["telemetry"] + counts["preview"] + counts["objects"] + counts["dashboard"]

StatsAddUp ==
    returned.op = "stats" =>
        /\ returned.total_connections = ChannelSum(returned.channels)
        /\ returned.total_connections >= 0

(***************************************************************************)
(* C15. The first message a dashboard connection receives is its initial   *)
(* state: no dashboard_update of the publisher and no event broadcast      *)
(* reaches it before.                                                      *)
(***************************************************************************)
InitialFirst ==
    \A ws \in WS :
        (endpoint[ws] = "dashboard" /\ inbox[ws] # <<>>) => inbox[ws][1] = "initial"

\* A dashboard connection has received its initial state and then a
\* broadcast.
InitialFirstWitness ==
    \E ws \in WS :
        /\ endpoint[ws] = "dashboard"
        /\ Len(inbox[ws]) >= 2
        /\ inbox[ws][2] \in {"update", "event"}

(***************************************************************************)
(* C16. Once cleanup_all_connections() has returned, no channel has a      *)
(* publisher task registered, every channel's list is empty and the        *)
(* connection count is 0, and the disconnect() calls that come later keep  *)
(* it so.                                                                  *)
(***************************************************************************)
ShutdownClears ==
    shut.returned =>
        /\ \A c \in Channels : _data_stream_tasks[c] = 0
        /\ LiveTasks = {}
        /\ \A c \in Channels : active_connections[c] = <<>>
        /\ _connection_count = 0

\* A connection that was registered at the shutdown has since run its
\* disconnect().
ShutdownClearsWitness ==
    /\ shut.returned
    /\ \E ws \in shut.cleared : pc[ws] = "closed"

(***************************************************************************)
(* C17. start() called on a worker whose status is neither stopped nor     *)
(* error raises AlreadyRunning, stop() called on a worker whose status is  *)
(* not running raises NotRunning, and either call leaves the worker as it  *)
(* found it.                                                               *)
(***************************************************************************)
InvalidTransitionRaises ==
    [][ /\ (CallStart /\ metrics.status \notin {"stopped", "error"})
            => (returned'.raised = "AlreadyRunning" /\ UNCHANGED workerVars)
        /\ (CallStop /\ metrics.status # "running")
            => (returned'.raised = "NotRunning" /\ UNCHANGED workerVars) ]_vars

(***************************************************************************)
(* C18. From the return of a stop() that found the worker running until    *)
(* the next call, the worker's status is stopped.                          *)
(***************************************************************************)
StoppedAfterStop ==
    (caller = Idle /\ returned.op = "stop" /\ returned.proceeded /\ returned.found = "running")
        => metrics.status = "stopped"

(***************************************************************************)
(* C19. Once a failure of frame processing has set the status to error,    *)
(* the status stays error as long as no start(), stop() or restart() is    *)
(* called.                                                                 *)
(***************************************************************************)
ErrorUntilStart ==
    [][ ( /\ metrics.status = "error"
          /\ metrics.error_message = "Pipeline frame processing failed"
          /\ caller = Idle
          /\ caller' = Idle )
            => metrics'.status = "error" ]_vars

(***************************************************************************)
(* C20. Every change of the worker's status follows an edge of             *)
(* stopped -> starting -> running -> {stopping -> stopped | error},        *)
(* error -> starting.                                                      *)
(***************************************************************************)
Edges ==
    { <<"stopped", "starting">>, <<"starting", "running">>, <<"running", "stopping">>,
      <<"stopping", "stopped">>, <<"running", "error">>, <<"error", "starting">> }

StatusFollowsEdges ==
    [][ metrics'.status # metrics.status
            => <<metrics.status, metrics'.status>> \in Edges ]_vars

(***************************************************************************)
(* C21.  restart() called on a worker in status running, stopped or error, *)
(* when it returns without raising, has launched a new processing thread   *)
(* on a newly constructed pipeline, and the status is starting or running, *)
(* also when the thread before did not end within the join's timeout.      *)
(***************************************************************************)
RestartLaunches ==
    [][ ( /\ caller.call = "restart"
          /\ caller.found \in {"running", "stopped", "error"}
          /\ caller' = Idle
          /\ returned'.raised = "none" )
            => ( /\ pipeline' = pipeline + 1
                 /\ thread' = pipeline'
                 /\ tpc'[thread'] = "new"
                 /\ metrics'.status \in {"starting", "running"} ) ]_vars

(***************************************************************************)
(* C29.  A lost source alone never makes a worker's status error: when     *)
(* process_frame returns without a failure of the detector or the emitter  *)
(* (with or without a frame), nobody has asked the worker or its pipeline  *)
(* to stop, and the capture is not ready because it is reconnecting, the   *)
(* status does not become error and the thread stays in its loop.          *)
(***************************************************************************)
AcquisitionNeverError ==
    [][ \A n \in Threads, k \in 0..MaxObjects, outcome \in {"ok", "noframe"} :
          ( /\ FrameDone(n, outcome, k)
            /\ ~stop_event
            /\ pipelines[pipeline].running
            /\ ~pipelines[pipeline].stopped
            /\ ~pipelines[pipeline].ready )
              => (metrics'.status # "error" /\ tpc'[n] = "loop") ]_vars

(***************************************************************************)
(* C22.  When start() of a manager that was not running returns or raises, *)
(* _start_camera has been called for every enabled camera and for no       *)
(* disabled one, also when it failed for one of them, and the manager is   *)
(* running.                                                                *)
(***************************************************************************)
Attempted(called, id) ==
    \E i \in 1..Len(called) : called[i].fn = "_start_camera" /\ called[i].id = id

StartStartsAll ==
    (returned.op = "start" /\ ~returned.was_running)
        => /\ running
           /\ \A id \in CameraIds : enabled[id] <=> Attempted(returned.called, id)

(***************************************************************************)
(* C23.  A camera whose stream cannot be opened does not hold up the       *)
(* others: whenever _start_camera is reached for a camera whose stream     *)
(* stays unreachable while enabled cameras come after it, start() still    *)
(* goes on to those cameras (and so returns).                              *)
(***************************************************************************)
UnreachableIsolated ==
    \A id \in CameraIds :
        ( /\ manager.op = "start"
          /\ Len(manager.todo) >= 2
          /\ Part.k = "_start_camera"
          /\ Part.id = id )
            ~> (manager.op = "none" \/ Len(manager.todo) < 2 \/ source[id] = "up")

(***************************************************************************)
(* C24.  When stop() of a running manager returns, stop() has been called  *)
(* on every worker the manager owned, also when it raised for one of them, *)
(* and the manager is not running and owns no worker.                      *)
(***************************************************************************)
StopStopsAll ==
    (returned.op = "stop" /\ returned.was_running)
        => /\ returned.raised = "none"
           /\ ~running
           /\ camera_workers = <<>>
           /\ \A i \in 1..Len(returned.found) :
                \E j \in 1..Len(returned.called) :
                    returned.called[j] = Did("stop", returned.found[i].id, returned.found[i].w)

\* stop() has returned; it raised in the first of two workers and went on to
\* the second.
StopStopsAllWitness ==
    /\ returned.op = "stop"
    /\ returned.was_running
    /\ Len(returned.found) = 2
    /\ workers[returned.found[1].w].status = "error"
    /\ workers[returned.found[1].w].thread = "loop"
    /\ workers[returned.found[1].w].stop_event
    /\ workers[returned.found[2].w].status = "stopped"

(***************************************************************************)
(* C25.  control_camera(id, action) raises 'not found' when the manager    *)
(* owns no worker for id, and 'Invalid action' when the action is not      *)
(* start, stop or restart; in both cases it has called nothing on any      *)
(* worker and has left the workers and the dict as they were.  Otherwise   *)
(* the calls it has made are the action's (stop then start for restart, up *)
(* to the one that raised), all on the worker of id.                       *)
(***************************************************************************)
CallsOf(action) ==
    IF action = "restart" THEN <<"stop", "start">> ELSE <<action>>

ControlApplies ==
    [][ returned'.op = "control_camera" =>
          LET r == returned'
              w == WorkerOf(r.found, r.id)
              fns == CallsOf(r.action)
          IN  IF w = 0
              THEN r.raised = "not found" /\ r.called = <<>>
                      /\ UNCHANGED <<camera_workers, workers, running>>
              ELSE IF r.action \notin {"start", "stop", "restart"}
              THEN r.raised = "Invalid action" /\ r.called = <<>>
                      /\ UNCHANGED <<camera_workers, workers, running>>
              ELSE /\ r.raised \in {"none", "exception"}
                   /\ Len(r.called) \in 1..Len(fns)
                   /\ r.raised = "none" => Len(r.called) = Len(fns)
                   /\ \A j \in 1..Len(r.called) : r.called[j] = Did(fns[j], r.id, w)
                   /\ camera_workers' = r.found ]_vars

\* An invalid action on a camera that has a running worker, beside another.
ControlAppliesWitness ==
    /\ returned.op = "control_camera"
    /\ returned.raised = "Invalid action"
    /\ Len(camera_workers) = 2
    /\ workers[WorkerOf(camera_workers, returned.id)].status = "running"

(***************************************************************************)
(* C26.  When reload_config() returns without raising, the manager is      *)
(* running iff it was running at the call.  If it was running, the call    *)
(* has stopped every worker it owned and cleared the dict before loading   *)
(* the configuration, and has started workers only after it: the workers   *)
(* owned at the return were all created by this call, for cameras that are *)
(* enabled.  If it was not running, the call has only loaded the           *)
(* configuration: no worker was created and the dict is as it was.         *)
(***************************************************************************)
Index(called, fn) ==
    LET at == {j \in 1..Len(called) : called[j].fn = fn}
    IN  IF at = {} THEN 0 ELSE CHOOSE j \in at : \A k \in at : j <= k

ReloadIsFullPause ==
    (returned.op = "reload_config" /\ returned.raised = "none")
        => LET r == returned
               load == Index(r.called, "_load_config")
           IN  /\ running = r.was_running
               /\ load # 0
               /\ IF r.was_running
                  THEN /\ \A i \in 1..Len(r.found) :
                            \E j \in 1..(load - 1) :
                                r.called[j] = Did("stop", r.found[i].id, r.found[i].w)
                       /\ Index(r.called, "clear") \in 1..(load - 1)
                       /\ \A j \in 1..Len(r.called) :
                            r.called[j].fn = "_start_camera" => j > load
                       /\ \A i \in 1..Len(camera_workers) :
                            /\ camera_workers[i].w > Len(workers) - r.created
                            /\ enabled[camera_workers[i].id]
                       /\ Len(camera_workers) = r.created
                  ELSE /\ r.called = <<Did("_load_config", "none", 0)>>
                       /\ r.created = 0
                       /\ camera_workers = r.found

\* reload_config() has returned on a manager that was running two workers,
\* one of whose cameras has been disabled since.
ReloadIsFullPauseWitness ==
    /\ returned.op = "reload_config"
    /\ returned.raised = "none"
    /\ returned.was_running
    /\ Len(returned.found) = 2
    /\ Len(camera_workers) = 1
    /\ returned.created = 1

(***************************************************************************)
(* C27.  is_healthy() returns True exactly when the manager is running and *)
(* no worker in its dict has the status error.                             *)
(***************************************************************************)
OwnedInError ==
    {i \in 1..Len(camera_workers) : workers[camera_workers[i].w].status = "error"}

HealthyIffRunningNoError ==
    returned.op = "is_healthy" => (returned.value <=> (running /\ OwnedInError = {}))

\* is_healthy() has returned False on a running manager, for the second of
\* its two workers.
HealthyIffRunningNoErrorWitness ==
    /\ returned.op = "is_healthy"
    /\ ~returned.value
    /\ running
    /\ OwnedInError = {2}

(***************************************************************************)
(* C28.  As stated: is_healthy() returns False exactly when at least one   *)
(* worker in the dict has the status error.                                *)
(***************************************************************************)
UnhealthyIffError ==
    returned.op = "is_healthy" => (~returned.value <=> OwnedInError # {})

(***************************************************************************)
(* C28, amended.  While the manager is running, is_healthy() returns False *)
(* exactly when at least one worker in the dict has the status error,      *)
(* whatever the number of workers with the status stopped; while it is not *)
(* running, is_healthy() returns False.                                    *)
(***************************************************************************)
UnhealthyIffErrorWhileRunning ==
    returned.op = "is_healthy" =>
        IF running THEN ~returned.value <=> OwnedInError # {} ELSE ~returned.value

\* is_healthy() has returned True on a running manager all of whose workers
\* (two) have the status stopped.
UnhealthyIffErrorWhileRunningWitness ==
    /\ returned.op = "is_healthy"
    /\ returned.value
    /\ running
    /\ Len(camera_workers) = 2
    /\ \A i \in 1..Len(camera_workers) : workers[camera_workers[i].w].status = "stopped"

(***************************************************************************)
(* C30.  After a loss in mid-stream -- the handle the capture holds does   *)
(* not deliver frames any more, ready being True -- the loop releases that *)
(* handle and is in its reconnect state (ready False), unless stop() is    *)
(* called.                                                                 *)
(***************************************************************************)
LossReconnects ==
    \A h \in Handles :
        (cap = h /\ handles[h].made /\ ~handles[h].live /\ ~handles[h].released
                 /\ ready /\ ~stopped)
            ~> (stopped \/ (handles[h].released /\ ~ready))

(***************************************************************************)
(* C31.  The frame cache is one newest-wins slot under the lock: every     *)
(* read() returns the pair (ret, frame) as one store of the capture thread *)
(* left it -- valid exactly when it holds a frame, never the flag of a     *)
(* store with the frame of before it -- and the frame in the slot, hence   *)
(* the frames of successive read() calls, never goes back in the order of  *)
(* acquisition.                                                            *)
(***************************************************************************)
FrameCacheNewestWins ==
    [][/\ frame' >= frame
       /\ returned'.op = "read" =>
             /\ returned'.ret = ret' /\ returned'.frame = frame'
             /\ returned'.ret <=> returned'.frame # 0]_vars

\* A read() returns the second frame stored.
FrameCacheNewestWinsWitness ==
    returned.op = "read" /\ returned.ret /\ returned.frame = 2

(***************************************************************************)
(* C39.  Once stop() has returned and the loop of run() has ended, no      *)
(* VideoCapture object is opened.                                          *)
(***************************************************************************)
NoHandleAfterStop ==
    (spc = "done" /\ rpc = "exit") => \A h \in Handles : ~handles[h].opened

(***************************************************************************)
(* C40.  The valid flag is monotone: once a frame has been stored, ret     *)
(* stays True and the slot keeps a frame, and every read() returns True    *)
(* with the frame stored last and leaves the slot as it is -- also while   *)
(* the capture is reconnecting and after stop().                           *)
(***************************************************************************)
ValidMonotone ==
    [][frame # 0 =>
          /\ ret' /\ frame' # 0
          /\ returned'.op = "read" =>
                /\ returned'.ret /\ returned'.frame = frame
                /\ frame' = frame /\ ret' = ret]_vars

\* A read() returns a frame after stop(), the capture having lost its source
\* and being in its reconnect branch.
ValidMonotoneWitness ==
    /\ returned.op = "read" /\ returned.ret /\ returned.frame # 0
    /\ stopped /\ ~ready /\ waiting

(***************************************************************************)
(* C34.  First fit in sort order: of two ids that held no slot before a    *)
(* cycle and hold one after it, the one that comes first in the sort --    *)
(* reported with the higher confidence, or with the same and the smaller   *)
(* id -- holds the slot of lower index; and the slots the new ids take are *)
(* the lowest of those the first loop left free, none of them skipped.     *)
(***************************************************************************)
FirstFitInSortOrder ==
    [][ LET new == (ReportedIds(detections') \ HeldIds(objects)) \cap HeldIds(objects')
            left == {i \in Slots : objects[i].track_id \notin ReportedIds(detections')}
        IN  /\ \A t, u \in new :
                  ( \/ BestConf(detections', t) > BestConf(detections', u)
                    \/ /\ BestConf(detections', t) = BestConf(detections', u)
                       /\ t < u )
                      => FirstWith(objects', t) < FirstWith(objects', u)
            /\ \A t \in new :
                  /\ FirstWith(objects', t) \in left
                  /\ \A j \in left :
                        j < FirstWith(objects', t) => objects'[j].track_id \in new ]_vars

\* Two slots taken in the order of the sort and against that of the list:
\* the first slot by the larger id, reported with the higher confidence.
FirstFitInSortOrderWitness ==
    /\ ~objects[1].free /\ ~objects[2].free
    /\ objects[1].track_id > objects[2].track_id
    /\ {objects[1].track_id, objects[2].track_id} \subseteq ReportedIds(detections)
    /\ BestConf(detections, objects[1].track_id) > BestConf(detections, objects[2].track_id)
    /\ BestConf(detections, objects[2].track_id) >= confidence

(***************************************************************************)
(* C35.  At the end of every cycle a slot that is not occupied has time 0  *)
(* and the track_id and center it had before the cycle, and an occupied    *)
(* slot has a time other than 0.                                           *)
(***************************************************************************)
StaleUntilReused ==
    [][ \A i \in Slots :
          /\ objects'[i].free =>
                /\ objects'[i].time = 0
                /\ objects'[i].track_id = objects[i].track_id
                /\ objects'[i].center = objects[i].center
          /\ ~objects'[i].free => objects'[i].time # 0 ]_vars

\* A slot given up keeps the id and the center of its last occupant, beside
\* an occupied slot.
StaleUntilReusedWitness ==
    /\ \E i \in Slots :
          /\ objects[i].free /\ objects[i].time = 0
          /\ objects[i].track_id > 0 /\ objects[i].center # <<0, 0>>
    /\ \E j \in Slots : ~objects[j].free /\ objects[j].time # 0

(***************************************************************************)
(* C36.  Between its calls, a manager that is not running owns no worker:  *)
(* running = False implies that camera_workers is empty.                   *)
(***************************************************************************)
NotRunningOwnsNone ==
    (manager.op = "none" /\ ~running) => camera_workers = <<>>

(***************************************************************************)
(* C37.  Of the processing threads of a worker at most one is alive at any *)
(* moment, and a thread that is alive is the one start() created last,     *)
(* with the pipeline start() created for it still in self.pipeline.        *)
(***************************************************************************)
OneThreadOnItsPipeline ==
    /\ Cardinality({n \in Threads : tpc[n] \notin {"none", "dead"}}) <= 1
    /\ \A n \in Threads :
          tpc[n] \notin {"none", "dead"} => (thread = n /\ pipeline = n)

\* A start() that returned at once: the thread of a stop() whose join timed
\* out is still alive.
OneThreadOnItsPipelineWitness ==
    /\ returned.op = "start" /\ ~returned.proceeded /\ returned.found = "stopped"
    /\ \E n \in Threads : tpc[n] \notin {"none", "dead"}

(***************************************************************************)
(* C38.  After stop() is called on a running worker, its processing thread *)
(* eventually ends, whatever it was doing -- waiting for the capture to be *)
(* ready, warming up, or in the frame loop.                                *)
(***************************************************************************)
StopEndsThread ==
    \A n \in Threads :
        (caller.call = "stop" /\ caller.at = "stopping" /\ caller.found = "running"
            /\ thread = n /\ tpc[n] \notin {"none", "dead"})
          ~> (tpc[n] = "dead")

(***************************************************************************)
(* C32.  Isolation of the workers: a step changes at most one worker --    *)
(* its state, its objects_count, the slots of its pipeline -- and a step   *)
(* of a call of the manager changes none but the worker the part of the    *)
(* call that runs is made on; a worker's record is written only by the     *)
(* calls made on it and by its own thread.                                 *)
(***************************************************************************)
WorkersIsolated ==
    [][ \A v \in 1..Len(workers) :
          workers'[v] # workers[v] =>
              /\ \A u \in 1..Len(workers) : u # v => workers'[u] = workers[u]
              /\ manager' # manager =>
                    (manager.todo # <<>> /\ Head(manager.todo).w = v) ]_vars

\* Two workers in their loops hold different slots, one with a detection
\* counted and one without, beside a worker whose processing failed.
WorkersIsolatedWitness ==
    \E u, v \in 1..Len(workers) :
        /\ u # v
        /\ workers[u].thread = "loop" /\ workers[u].objects_count = 1
        /\ ~workers[u].objects[1].free
        /\ workers[v].status = "error" /\ workers[v].objects = setup

(***************************************************************************)
(* C33, as stated.  With period_frames = K, the tracker and the OSCWorker  *)
(* are both called exactly on the valid reads that bring the frame count   *)
(* to a multiple of K.                                                     *)
(***************************************************************************)
BothEveryKthFrame ==
    [][ returned'.op = "process_frame" =>
          ( (returned'.detector /\ returned'.emitter) <=>
                /\ _frame_count' = _frame_count + 1
                /\ _frame_count' % period_frames = 0 ) ]_vars

(***************************************************************************)
(* C33, amended.  With period_frames = K, the tracker is called exactly on *)
(* the valid reads that bring the frame count to a multiple of K, and the  *)
(* OSCWorker on those of them on which the tracker returns; after every    *)
(* call _processed_count = _frame_count \div K; a call that does not reach *)
(* the tracker leaves the slots and the messages sent as they were.        *)
(***************************************************************************)
EveryKthFrame ==
    [][ /\ _processed_count' = _frame_count' \div period_frames
        /\ returned'.op = "process_frame" =>
              /\ returned'.detector <=>
                    /\ _frame_count' = _frame_count + 1
                    /\ _frame_count' % period_frames = 0
              /\ _frame_count' = _frame_count + 1 <=> (_running /\ returned'.ret)
              /\ returned'.emitter <=> (returned'.detector /\ returned'.value)
              /\ ~returned'.emitter => UNCHANGED <<objects, sent>> ]_vars

\* With K = 2 the fourth valid read is processed, the second time: the
\* stream has delivered fewer frames than were counted.
EveryKthFrameWitness ==
    /\ returned.op = "process_frame" /\ returned.detector /\ returned.emitter
    /\ period_frames = 2 /\ _frame_count = 4 /\ _processed_count = 2
    /\ grabbed < 4

=============================================================================
